---- MODULE Spec2Model ----
(***************************************************************************)
(* Stratagem: the turn-resolution engine (src/src/game.py), its tables     *)
(* (src/src/types.py, src/src/map_gen.py, src/src/tech.py) and the barrier *)
(* coordinator of the game server (src/server/app.py) with its rating      *)
(* store (src/server/rankings.py).                                         *)
(***************************************************************************)
EXTENDS Integers, Sequences, FiniteSets, TLC

VARIABLES game, pending_orders, turn_log, diplo_log, resp, pc, local,
          matches, rankings, calls, twin

vars == <<game, pending_orders, turn_log, diplo_log, resp, pc, local,
          matches, rankings, calls, twin>>

\* Python's None where a string is expected (a player id, a tech name)
None == "None"

\* Python's None where an object, a list or a dict is expected; an optional
\* integer n is held as <<n>>
NoneRec == <<>>

\* ------------------------------------------------------------------------
\* Generic helpers
\* ------------------------------------------------------------------------

Max(a, b) == IF a >= b THEN a ELSE b

Min(a, b) == IF a <= b THEN a ELSE b

Range(s) == {s[i] : i \in DOMAIN s}

\* "x = e; body": body sees the value of e under the name x
Let(e, Body(_)) == Body(e)

\* TRUE, once x has been computed
Computed(x) == Len(<<x>>) = 1

\* The elements lo..hi of s folded into acc from left to right:
\* Op(...Op(Op(acc, s[lo]), s[lo + 1])..., s[hi]), the two halves one after
\* the other
RECURSIVE FoldRange(_, _, _, _, _)
FoldRange(Op(_, _), acc, s, lo, hi) ==
    IF Computed(acc) /\ lo > hi THEN acc
    ELSE IF lo = hi THEN Op(acc, s[lo])
    ELSE FoldRange(Op, FoldRange(Op, acc, s, lo, (lo + hi) \div 2),
                   s, (lo + hi) \div 2 + 1, hi)

\* "for x in s: acc = Op(acc, x)"
Fold(Op(_, _), acc, s) == FoldRange(Op, acc, s, 1, Len(s))

\* [F(x) for x in s]
MapSeq(F(_), s) == [i \in DOMAIN s |-> F(s[i])]

\* x in s, for a Python list s
InSeq(x, s) == \E i \in DOMAIN s : s[i] = x

\* list.remove(x): drops the first element equal to x
RemoveFirst(s, x) ==
    LET i == CHOOSE k \in DOMAIN s : s[k] = x /\ \A j \in 1..(k - 1) : s[j] # x
    IN  SubSeq(s, 1, i - 1) \o SubSeq(s, i + 1, Len(s))

\* Python's floor division for a non-negative dividend and positive divisor
FloorDiv(a, b) == a \div b

\* Insertion of x into a sequence sorted by Less (stable: after equal keys)
RECURSIVE InsertSorted(_, _, _)
InsertSorted(Less(_, _), s, x) ==
    IF s = <<>> THEN <<x>>
    ELSE IF Less(x, s[1]) THEN <<x>> \o s
    ELSE <<s[1]>> \o InsertSorted(Less, Tail(s), x)

\* sorted(s, key=...): a stable sort, Less being "key(a) < key(b)"
StableSort(Less(_, _), s) ==
    LET Ins(acc, x) == InsertSorted(Less, acc, x)
    IN  Fold(Ins, <<>>, s)

\* ------------------------------------------------------------------------
\* Tables (src/src/types.py)
\* ------------------------------------------------------------------------

TERRAIN_SHORT ==
    [plains |-> "P", forest |-> "F", mountain |-> "M", coast |-> "C", river |-> "R"]

TERRAIN_DEFENSE ==
    [plains |-> 0, forest |-> 1, mountain |-> 3, coast |-> 0, river |-> 1]

TERRAIN_RESOURCES ==
    [plains |-> <<3, 0, 1>>, forest |-> <<2, 1, 0>>, mountain |-> <<0, 3, 1>>,
     coast |-> <<2, 0, 2>>, river |-> <<2, 1, 1>>]

\* The values of enum UnitType
UnitTypeValues ==
    {"militia", "infantry", "archers", "cavalry", "siege", "knights", "scout"}

UNIT_ORDER ==
    <<"militia", "infantry", "archers", "cavalry", "siege", "knights", "scout">>

\* The civ-unique unit types that game.py names (UnitType.SAGE, HERBALIST,
\* CORSAIR; CIV_UNIQUE_UNIT): their enum members are not in types.py.
UniqueUnitValues == {"huscarl", "herbalist", "corsair", "sage"}

CIV_UNIQUE_UNIT ==
    [ironborn |-> "huscarl", verdanti |-> "herbalist",
     tidecallers |-> "corsair", ashwalkers |-> "sage"]

\* cost (food, iron, gold), base_strength, speed, min_age
UNIT_STATS ==
    [militia   |-> <<<<1, 0, 0>>, 1, 1, 1>>,
     infantry  |-> <<<<1, 1, 0>>, 3, 1, 1>>,
     archers   |-> <<<<1, 0, 1>>, 2, 1, 2>>,
     cavalry   |-> <<<<2, 1, 0>>, 3, 2, 2>>,
     siege     |-> <<<<0, 2, 2>>, 1, 1, 3>>,
     knights   |-> <<<<2, 2, 1>>, 5, 2, 3>>,
     scout     |-> <<<<0, 0, 1>>, 0, 3, 1>>,
     huscarl   |-> <<<<1, 2, 0>>, 6, 1, 2>>,
     herbalist |-> <<<<2, 0, 1>>, 1, 1, 2>>,
     corsair   |-> <<<<1, 1, 1>>, 3, 2, 2>>,
     sage      |-> <<<<1, 0, 2>>, 1, 1, 2>>]

\* TRIANGLE[u.type].get(et, 0), 0 when u.type is not in TRIANGLE
TRIANGLE(ut, et) ==
    IF ut = "infantry" /\ et = "cavalry" THEN 2
    ELSE IF ut = "archers" /\ et = "infantry" THEN 2
    ELSE IF ut = "cavalry" /\ et = "archers" THEN 2
    ELSE 0

\* TERRAIN_UNIT_BONUS[u.type].get(terrain, 0), 0 when u.type is not in it
TERRAIN_UNIT_BONUS(ut, terrain) ==
    IF ut = "cavalry" /\ terrain = "plains" THEN 1
    ELSE IF ut = "archers" /\ terrain = "forest" THEN 1
    ELSE 0

BuildingTypeValues ==
    {"farm", "mine", "market", "barracks", "fortress", "trade_post", "watchtower"}

BUILDING_SHORT ==
    [farm |-> "F", mine |-> "M", market |-> "K", barracks |-> "B",
     fortress |-> "X", trade_post |-> "T", watchtower |-> "W"]

\* cost (food, iron, gold), min_age
BUILDING_STATS ==
    [farm       |-> <<<<2, 0, 0>>, 1>>,
     mine       |-> <<<<0, 2, 0>>, 1>>,
     market     |-> <<<<0, 0, 3>>, 1>>,
     barracks   |-> <<<<0, 2, 0>>, 1>>,
     fortress   |-> <<<<0, 3, 2>>, 2>>,
     trade_post |-> <<<<0, 0, 2>>, 2>>,
     watchtower |-> <<<<0, 1, 1>>, 2>>]

TechIdValues == {"agr", "min", "mas", "tac", "com", "for", "bli", "sie", "dip"}

TECH_AGE ==
    [agr |-> 1, min |-> 1, mas |-> 1, tac |-> 2, com |-> 2, for |-> 2,
     bli |-> 3, sie |-> 3, dip |-> 3]

TECH_GROUPS ==
    <<<<"agr", "min", "mas">>, <<"tac", "com", "for">>, <<"bli", "sie", "dip">>>>

TECH_COST ==
    [agr |-> <<3, 0, 2>>, min |-> <<0, 3, 2>>, mas |-> <<2, 2, 1>>,
     tac |-> <<3, 3, 2>>, com |-> <<2, 0, 5>>, for |-> <<2, 4, 2>>,
     bli |-> <<5, 5, 3>>, sie |-> <<3, 6, 3>>, dip |-> <<3, 3, 6>>]

\* AGE_COST = {2: ..., 3: ...}
AGE_COST(next_age) == IF next_age = 2 THEN <<10, 8, 5>> ELSE <<15, 12, 10>>

TreatyTypeValues == {"alliance", "trade", "nap", "ceasefire"}

\* ------------------------------------------------------------------------
\* The tournament map (src/src/map_gen.py)
\* ------------------------------------------------------------------------

\* id, terrain (name and coordinates are never read by the engine)
TOURNAMENT_MAP ==
    << <<"frostgate", "mountain">>, <<"snowhaven", "plains">>,
       <<"stormwatch", "mountain">>, <<"windcrest", "plains">>,
       <<"moonhaven", "mountain">>, <<"silverlake", "plains">>,
       <<"fireridge", "mountain">>, <<"emberveil", "plains">>,
       <<"crystalpeak", "coast">>, <<"thornfield", "forest">>,
       <<"ironridge", "river">>,
       <<"darkhollow", "coast">>, <<"ashford", "forest">>,
       <<"stonekeep", "river">>,
       <<"mistwood", "forest">>, <<"deepwood", "river">>,
       <<"oakmere", "river">>,
       <<"sunharbor", "coast">>, <<"goldreach", "river">>,
       <<"coralcove", "river">>,
       <<"kingscross", "plains">>, <<"dragonseat", "mountain">>,
       <<"tradeway", "coast">>, <<"highmarket", "coast">> >>

TOURNAMENT_EDGES ==
    << <<"frostgate", "snowhaven">>, <<"frostgate", "thornfield">>,
       <<"frostgate", "crystalpeak">>, <<"snowhaven", "thornfield">>,
       <<"snowhaven", "deepwood">>, <<"snowhaven", "mistwood">>,
       <<"stormwatch", "windcrest">>, <<"stormwatch", "ironridge">>,
       <<"stormwatch", "crystalpeak">>, <<"windcrest", "ironridge">>,
       <<"windcrest", "goldreach">>, <<"windcrest", "sunharbor">>,
       <<"moonhaven", "silverlake">>, <<"moonhaven", "ashford">>,
       <<"moonhaven", "darkhollow">>, <<"silverlake", "ashford">>,
       <<"silverlake", "oakmere">>, <<"silverlake", "mistwood">>,
       <<"fireridge", "emberveil">>, <<"fireridge", "stonekeep">>,
       <<"fireridge", "darkhollow">>, <<"emberveil", "stonekeep">>,
       <<"emberveil", "coralcove">>, <<"emberveil", "sunharbor">>,
       <<"crystalpeak", "thornfield">>, <<"crystalpeak", "ironridge">>,
       <<"thornfield", "deepwood">>, <<"thornfield", "kingscross">>,
       <<"ironridge", "goldreach">>, <<"ironridge", "kingscross">>,
       <<"darkhollow", "ashford">>, <<"darkhollow", "stonekeep">>,
       <<"ashford", "oakmere">>, <<"ashford", "dragonseat">>,
       <<"stonekeep", "coralcove">>, <<"stonekeep", "dragonseat">>,
       <<"mistwood", "deepwood">>, <<"mistwood", "oakmere">>,
       <<"deepwood", "tradeway">>, <<"deepwood", "kingscross">>,
       <<"oakmere", "tradeway">>, <<"oakmere", "dragonseat">>,
       <<"sunharbor", "goldreach">>, <<"sunharbor", "coralcove">>,
       <<"goldreach", "highmarket">>, <<"goldreach", "kingscross">>,
       <<"coralcove", "highmarket">>, <<"coralcove", "dragonseat">>,
       <<"kingscross", "tradeway">>, <<"kingscross", "highmarket">>,
       <<"dragonseat", "tradeway">>, <<"dragonseat", "highmarket">>,
       <<"tradeway", "highmarket">> >>

PLAYER_STARTS ==
    << <<"frostgate", "snowhaven">>, <<"stormwatch", "windcrest">>,
       <<"moonhaven", "silverlake">>, <<"fireridge", "emberveil">> >>

CIVS == <<"ironborn", "verdanti", "tidecallers", "ashwalkers">>

\* The keys of Game.provinces, in insertion order
ProvinceOrder == [i \in DOMAIN TOURNAMENT_MAP |-> TOURNAMENT_MAP[i][1]]

ProvinceIds == Range(ProvinceOrder)

Terrain ==
    [p \in ProvinceIds |->
        LET i == CHOOSE k \in DOMAIN TOURNAMENT_MAP : TOURNAMENT_MAP[k][1] = p
        IN  TOURNAMENT_MAP[i][2]]

\* Province.adjacent of every province, as generate_map builds the lists
Adjacent ==
    LET AddEdge(adj, e) ==
            LET a == e[1]
                b == e[2]
                adj1 == IF InSeq(b, adj[a]) THEN adj
                        ELSE [adj EXCEPT ![a] = Append(@, b)]
            IN  IF InSeq(a, adj1[b]) THEN adj1
                ELSE [adj1 EXCEPT ![b] = Append(@, a)]
    IN  Fold(AddEdge, [p \in ProvinceIds |-> <<>>], TOURNAMENT_EDGES)

AdjSet(p) == Range(Adjacent[p])

\* ------------------------------------------------------------------------
\* Game creation (Game.create, generate_map; create_game of the server)
\* ------------------------------------------------------------------------

\* The create_game request of the checked game: three players (p0, p1, p2 in
\* the insertion order of Game.players), their civs, and max_turns.
PlayerOrder == <<"p0", "p1", "p2">>

PlayerIds == Range(PlayerOrder)

CreateCivs == <<"ashwalkers", "verdanti", "tidecallers">>

\* max_turns of the create_game request
MaxTurns == 2

Unit(id, type, owner, province) ==
    [id |-> id, type |-> type, owner |-> owner, province |-> province, veteran |-> 0]

\* Unit.strength = base_strength + veteran
Strength(u) == UNIT_STATS[u.type][2] + u.veteran

generate_map ==
    LET active_starts == SubSeq(PLAYER_STARTS, 1, Len(PlayerOrder))
        StartOf(p) == {i \in DOMAIN active_starts : InSeq(p, active_starts[i])}
        Prov(p) ==
            IF StartOf(p) = {}
            THEN [owner |-> None, units |-> <<>>, buildings |-> <<>>]
            ELSE LET i == CHOOSE k \in StartOf(p) : TRUE
                     player_id == "p" \o ToString(i - 1)
                 IN  IF active_starts[i][1] = p
                     THEN [owner |-> player_id,
                           units |-> << Unit(player_id \o "_mil_0", "militia", player_id, p),
                                        Unit(player_id \o "_inf_0", "infantry", player_id, p),
                                        Unit(player_id \o "_sco_0", "scout", player_id, p) >>,
                           buildings |-> <<>>]
                     ELSE [owner |-> player_id,
                           units |-> << Unit(player_id \o "_mil_1", "militia", player_id, p) >>,
                           buildings |-> <<>>]
    IN  [p \in ProvinceIds |-> Prov(p)]

\* Player(id=pid, name=pid, civ=...): the dataclass defaults
NewPlayer(civ) ==
    [civ |-> civ, age |-> 1, resources |-> <<10, 5, 5>>, techs |-> <<>>,
     alive |-> TRUE, score |-> 0]

\* Game.create(num_players, seed, civs), then game.max_turns = req.max_turns
GameCreate ==
    LET civ_list == IF CreateCivs # <<>> THEN CreateCivs
                    ELSE SubSeq(CIVS, 1, Len(PlayerOrder))
        IndexOf(pid) == CHOOSE i \in DOMAIN PlayerOrder : PlayerOrder[i] = pid
    IN  [provinces |-> generate_map,
         players |-> [pid \in PlayerIds |->
                        NewPlayer(civ_list[((IndexOf(pid) - 1) % Len(civ_list)) + 1])],
         trade_routes |-> <<>>,
         messages |-> <<>>,
         treaties |-> <<>>,
         proposals |-> <<>>,
         trust_penalties |-> <<>>,
         turn |-> 0,
         history |-> <<>>,
         winner |-> None,
         max_turns |-> MaxTurns,
         uid |-> 0,
         treaty_uid |-> 0]

\* ------------------------------------------------------------------------
\* Queries and Player methods
\* ------------------------------------------------------------------------

\* [p for p in self.provinces.values() if p.owner == pid], as province ids
player_provinces(g, pid) ==
    SelectSeq(ProvinceOrder, LAMBDA p : g.provinces[p].owner = pid)

\* [u for p in self.provinces.values() for u in p.units if u.owner == pid]
player_units(g, pid) ==
    LET Add(acc, p) == acc \o SelectSeq(g.provinces[p].units, LAMBDA u : u.owner = pid)
    IN  Fold(Add, <<>>, ProvinceOrder)

\* Game._find_unit: the first unit with this id in province order, or None
find_unit(g, uid) ==
    LET Add(acc, p) == acc \o SelectSeq(g.provinces[p].units, LAMBDA u : u.id = uid)
    IN  Let(Fold(Add, <<>>, ProvinceOrder),
            LAMBDA found : IF found = <<>> THEN NoneRec ELSE found[1])

\* A player who is taken to afford any cost
afford_any(player, cost) == TRUE

can_afford(player, cost) ==
    /\ player.resources[1] >= cost[1]
    /\ player.resources[2] >= cost[2]
    /\ player.resources[3] >= cost[3]

pay(player, cost) ==
    [player EXCEPT !.resources = <<@[1] - cost[1], @[2] - cost[2], @[3] - cost[3]>>]

civ_unit_discount(player, cost) ==
    IF player.civ = "ironborn" THEN <<cost[1], Max(0, cost[2] - 1), cost[3]>> ELSE cost

civ_tech_discount(player, cost) ==
    IF player.civ = "ashwalkers"
    THEN <<FloorDiv(cost[1] * 3, 4), FloorDiv(cost[2] * 3, 4), FloorDiv(cost[3] * 3, 4)>>
    ELSE cost

\* Province.has_building
has_building(prov, bt) == \E i \in DOMAIN prov.buildings :
    prov.buildings[i].type = bt /\ prov.buildings[i].done

\* Province.defense_bonus
defense_bonus(g, p) ==
    LET Add(acc, b) == IF b.type = "fortress" /\ b.done THEN acc + 3 ELSE acc
    IN  Fold(Add, TERRAIN_DEFENSE[Terrain[p]], g.provinces[p].buildings)

\* Province.production(player_techs)
production(g, p, player_techs) ==
    LET bs == g.provinces[p].buildings
        Count(bt) == Len(SelectSeq(bs, LAMBDA b : b.type = bt /\ b.done))
        base == TERRAIN_RESOURCES[Terrain[p]]
        f == base[1] + 2 * Count("farm")
             + (IF InSeq("agr", player_techs) THEN Count("farm") ELSE 0)
        i == base[2] + 2 * Count("mine")
             + (IF InSeq("min", player_techs) THEN Count("mine") ELSE 0)
        gd == base[3] + 2 * Count("market")
              + (IF InSeq("com", player_techs) THEN 2 * Count("market") ELSE 0)
    IN  <<f, i, gd>>

\* Province.unit_counts: counts in UNIT_ORDER, of the units whose type is in it
unit_counts(prov) ==
    [k \in DOMAIN UNIT_ORDER |->
        Len(SelectSeq(prov.units, LAMBDA u : u.type = UNIT_ORDER[k]))]

\* A tech tree in which every tech can always be researched
can_research_any(player_age, player_techs, tech) == TRUE

\* tech.can_research
can_research(player_age, player_techs, tech) ==
    LET age == TECH_AGE[tech]
    IN  /\ ~InSeq(tech, player_techs)
        /\ age <= player_age
        /\ ~\E k \in DOMAIN TECH_GROUPS[age] : InSeq(TECH_GROUPS[age][k], player_techs)

\* ------------------------------------------------------------------------
\* Phase 0: diplomacy (Game.process_diplomacy)
\* ------------------------------------------------------------------------
\* The phases thread a record st = [g, events, exc]: the game, the events
\* list of the turn, and whether an exception has been raised (an exception
\* leaves g as mutated so far and ends the resolution).

\* dict.get(key, default) of an order's JSON object
Get(obj, key, default) == IF key \in DOMAIN obj THEN obj[key] ELSE default

\* trust_penalties.get(pid, 0)
TrustOf(g, pid) ==
    IF pid \in DOMAIN g.trust_penalties THEN g.trust_penalties[pid] ELSE 0

\* d[k] = v on a dict held as a function
DictSet(d, k, v) == [x \in (DOMAIN d) \cup {k} |-> IF x = k THEN v ELSE d[x]]

\* for msg in d.messages
diplo_message(st, pid, msg) ==
    LET to == Get(msg, "to", "public")
        content == Get(msg, "content", "")
        is_public == (to = "public")
        m == [sender |-> pid, recipient |-> to, content |-> content,
              turn |-> st.g.turn, is_public |-> is_public]
    IN  [st EXCEPT !.g.messages = Append(@, m),
                   !.events = IF is_public
                              THEN Append(@, <<"public_message", pid, content>>)
                              ELSE @]

\* for prop in d.proposals; TreatyType(ttype) raises ValueError on a string
\* that is no treaty type, after _treaty_uid was incremented
diplo_proposal(st, pid, prop) ==
    LET target == Get(prop, "target", None)
        ttype == Get(prop, "type", "alliance")
        uid == st.g.treaty_uid + 1
        tp == [id |-> "tp_" \o ToString(uid), proposer |-> pid, target |-> target,
               treaty_type |-> ttype, turn_proposed |-> st.g.turn,
               accepted |-> FALSE, rejected |-> FALSE]
    IN  IF st.exc THEN st
        ELSE IF target \notin PlayerIds \/ target = pid THEN st
        ELSE IF ttype \notin TreatyTypeValues
             THEN [st EXCEPT !.g.treaty_uid = uid, !.exc = TRUE]
        ELSE [st EXCEPT !.g.treaty_uid = uid,
                        !.g.proposals = Append(@, tp),
                        !.events = Append(@, <<"proposed", pid, ttype, target>>)]

\* for tp_id in d.accept_treaties: for tp in self.proposals
diplo_accept(st, pid, tp_id) ==
    LET Step(acc, i) ==
            LET tp == acc.g.proposals[i]
                uid == acc.g.treaty_uid + 1
                treaty == [id |-> "t_" \o ToString(uid), type |-> tp.treaty_type,
                           parties |-> <<tp.proposer, tp.target>>,
                           turn_created |-> acc.g.turn,
                           broken_by |-> None, turn_broken |-> NoneRec]
            IN  IF tp.id = tp_id /\ tp.target = pid /\ ~tp.accepted /\ ~tp.rejected
                THEN [acc EXCEPT !.g.proposals[i].accepted = TRUE,
                                 !.g.treaty_uid = uid,
                                 !.g.treaties = Append(@, treaty),
                                 !.events = Append(@, <<"treaty_formed", tp.proposer,
                                                        pid, tp.treaty_type>>)]
                ELSE acc
    IN  IF st.exc THEN st
        ELSE Fold(Step, st, [i \in 1..Len(st.g.proposals) |-> i])

\* for tp_id in d.reject_treaties: for tp in self.proposals
diplo_reject(st, pid, tp_id) ==
    LET Step(acc, i) ==
            LET tp == acc.g.proposals[i]
            IN  IF tp.id = tp_id /\ tp.target = pid
                THEN [acc EXCEPT !.g.proposals[i].rejected = TRUE]
                ELSE acc
    IN  IF st.exc THEN st
        ELSE Fold(Step, st, [i \in 1..Len(st.g.proposals) |-> i])

\* A break loop without the test "t.active"
diplo_break_again(st, pid, t_id) ==
    LET Step(acc, i) ==
            LET t == acc.g.treaties[i]
                other == SelectSeq(t.parties, LAMBDA q : q # pid)[1]
            IN  IF t.id = t_id /\ InSeq(pid, t.parties)
                THEN [acc EXCEPT !.g.treaties[i].broken_by = pid,
                                 !.g.treaties[i].turn_broken = <<acc.g.turn>>,
                                 !.g.trust_penalties =
                                     DictSet(@, pid, TrustOf(acc.g, pid) + 1),
                                 !.events = Append(@, <<"treaty_broken", pid,
                                                        t.type, other>>)]
                ELSE acc
    IN  IF st.exc THEN st
        ELSE Fold(Step, st, [i \in 1..Len(st.g.treaties) |-> i])

\* for t_id in d.break_treaties: for t in self.treaties
diplo_break(st, pid, t_id) ==
    LET Step(acc, i) ==
            LET t == acc.g.treaties[i]
                other == SelectSeq(t.parties, LAMBDA q : q # pid)[1]
            IN  IF t.id = t_id /\ InSeq(pid, t.parties) /\ t.broken_by = None
                THEN [acc EXCEPT !.g.treaties[i].broken_by = pid,
                                 !.g.treaties[i].turn_broken = <<acc.g.turn>>,
                                 !.g.trust_penalties =
                                     DictSet(@, pid, TrustOf(acc.g, pid) + 1),
                                 !.events = Append(@, <<"treaty_broken", pid,
                                                        t.type, other>>)]
                ELSE acc
    IN  IF st.exc THEN st
        ELSE Fold(Step, st, [i \in 1..Len(st.g.treaties) |-> i])

\* The body of the loop over all_orders.items() for one player
diplo_player(st, orders) ==
    LET pid == orders.player_id
        d == orders.diplomacy
        Msg(acc, m) == diplo_message(acc, pid, m)
        Prop(acc, pr) == diplo_proposal(acc, pid, pr)
        Acc(acc, id) == diplo_accept(acc, pid, id)
        Rej(acc, id) == diplo_reject(acc, pid, id)
        Brk(acc, id) == diplo_break(acc, pid, id)
    IN  IF st.exc \/ d = NoneRec THEN st
        ELSE Fold(Brk, Fold(Rej, Fold(Acc, Fold(Prop, Fold(Msg, st, d.messages),
                                                 d.proposals),
                                      d.accept_treaties),
                            d.reject_treaties),
                  d.break_treaties)

\* all_orders is the list of the dict's values in insertion order
process_diplomacy(st, all_orders) == Fold(diplo_player, st, all_orders)

\* ------------------------------------------------------------------------
\* Phase 1: research and age up (Game.process_research)
\* ------------------------------------------------------------------------

research_player(st, orders) ==
    LET pid == orders.player_id
        player == st.g.players[pid]
        r == orders.research
        next_age == player.age + 1
        age_cost == civ_tech_discount(player, AGE_COST(next_age))
        tech_cost == civ_tech_discount(player, TECH_COST[r])
    IN  IF ~player.alive \/ r = None THEN st
        ELSE IF r = "age_up"
        THEN IF next_age > 3 THEN st
             ELSE IF ~can_afford(player, age_cost) THEN st
             ELSE [st EXCEPT !.g.players[pid] = [pay(player, age_cost) EXCEPT !.age = next_age],
                             !.events = Append(@, <<"age_up", pid, next_age>>)]
        ELSE IF r \notin TechIdValues THEN st
        ELSE IF ~can_research(player.age, player.techs, r) THEN st
        ELSE IF ~can_afford(player, tech_cost) THEN st
        ELSE [st EXCEPT !.g.players[pid] = [pay(player, tech_cost) EXCEPT !.techs = Append(@, r)],
                        !.events = Append(@, <<"researched", pid, r>>)]

process_research(st, all_orders) == Fold(research_player, st, all_orders)

\* ------------------------------------------------------------------------
\* Phase 2: movement and combat (Game.process_moves, Game._resolve_combat)
\* ------------------------------------------------------------------------

\* A move that leaves the unit in the list of the province it came from
move_unit_kept(st, pid, move) ==
    Let(find_unit(st.g, move.unit_id), LAMBDA unit :
        LET src == unit.province
            dst == move.target
        IN  IF unit = NoneRec THEN st
            ELSE IF unit.owner # pid THEN st
            ELSE IF src \notin ProvinceIds \/ dst \notin ProvinceIds THEN st
            ELSE IF ~InSeq(dst, Adjacent[src]) THEN st
            ELSE [st EXCEPT !.g.provinces[dst].units =
                                Append(@, [unit EXCEPT !.province = dst])])

\* One move order of player pid
move_unit(st, pid, move) ==
    Let(find_unit(st.g, move.unit_id), LAMBDA unit :
        LET src == unit.province
            dst == move.target
        IN  IF unit = NoneRec THEN st
            ELSE IF unit.owner # pid THEN st
            ELSE IF src \notin ProvinceIds \/ dst \notin ProvinceIds THEN st
            ELSE IF ~InSeq(dst, Adjacent[src]) THEN st
            ELSE [st EXCEPT !.g.provinces =
                     [[@ EXCEPT ![src].units = RemoveFirst(@, unit)]
                         EXCEPT ![dst].units = Append(@, [unit EXCEPT !.province = dst])]])

moves_player(st, orders) ==
    LET Mv(acc, m) == move_unit(acc, orders.player_id, m)
    IN  Fold(Mv, st, orders.moves)

\* The keys of the dict owners, in insertion order: the owners of the units
\* of the province by first appearance
OwnersOf(units) ==
    LET Add(acc, u) == IF InSeq(u.owner, acc) THEN acc ELSE Append(acc, u.owner)
    IN  Fold(Add, <<>>, units)

SumSeq(s) ==
    LET Add(acc, x) == acc + x
    IN  Fold(Add, 0, s)

\* The effective strength of side pid in province p
side_strength(g, p, pid) ==
    LET prov == g.provinces[p]
        player == g.players[pid]
        units == SelectSeq(prov.units, LAMBDA u : u.owner = pid)
        enemy_types == {prov.units[k].type :
                          k \in {i \in DOMAIN prov.units : prov.units[i].owner # pid}}
        Tri(u) == SumSeq([k \in 1..Len(UNIT_ORDER) |->
                            IF UNIT_ORDER[k] \in enemy_types
                            THEN TRIANGLE(u.type, UNIT_ORDER[k]) ELSE 0])
        Us(u) == Strength(u)
                 + (IF InSeq("tac", player.techs) THEN 1 ELSE 0)
                 + Tri(u)
                 + TERRAIN_UNIT_BONUS(u.type, Terrain[p])
    IN  Let(SumSeq(MapSeq(Us, units))
            + (IF pid = prov.owner
               THEN defense_bonus(g, p) + (IF InSeq("for", player.techs) THEN 1 ELSE 0)
               ELSE 0),
            LAMBDA s : IF Terrain[p] = "river" /\ pid # prov.owner
                       THEN Max(s - Len(units), 0)
                       ELSE s)

\* a < b for two player ids "p<i>" (single-digit i): the order of the indices
PidLess(a, b) ==
    LET Index(x) == CHOOSE i \in DOMAIN PlayerOrder : PlayerOrder[i] = x
    IN  Index(a) < Index(b)

\* The winner chosen by strength and player id alone, whoever owns the province
combat_winner_by_id(sides, strengths, owner) ==
    CHOOSE w \in Range(sides) :
        \A o \in Range(sides) \ {w} :
            \/ strengths[w] > strengths[o]
            \/ strengths[w] = strengths[o] /\ PidLess(w, o)

\* sorted(strengths.items(), key=(-strength, pid != prov.owner, pid))[0][0]
combat_winner(sides, strengths, owner) ==
    CHOOSE w \in Range(sides) :
        \A o \in Range(sides) \ {w} :
            \/ strengths[w] > strengths[o]
            \/ /\ strengths[w] = strengths[o]
               /\ \/ (w = owner /\ o # owner)
                  \/ ((w = owner) = (o = owner) /\ PidLess(w, o))

\* A combat that costs the winner every unit
winner_removed_every(units, winner, n) ==
    SelectSeq(units, LAMBDA u : u.owner = winner)

\* The winner's casualties taken without sparing the last unit
winner_removed_to_the_last(units, winner, n) ==
    LET winner_units == StableSort(LAMBDA a, b : Strength(a) < Strength(b),
                                   SelectSeq(units, LAMBDA u : u.owner = winner))
    IN  SubSeq(winner_units, 1, Min(n, Len(winner_units)))

\* The winner's units that are removed: the first n of the winner's units
\* sorted by strength (a stable sort)
winner_removed(units, winner, n) ==
    LET winner_units == StableSort(LAMBDA a, b : Strength(a) < Strength(b),
                                   SelectSeq(units, LAMBDA u : u.owner = winner))
    IN  SubSeq(winner_units, 1, Min(n, Max(0, Len(winner_units) - 1)))

resolve_combat(st, p) ==
    LET prov == st.g.provinces[p]
        CountOf(q) == Len(SelectSeq(prov.units, LAMBDA u : u.owner = q))
    IN  Let(OwnersOf(prov.units), LAMBDA sides :
        Let([pid \in Range(sides) |-> side_strength(st.g, p, pid)], LAMBDA strengths :
        Let(combat_winner(sides, strengths, prov.owner), LAMBDA winner :
        Let(SelectSeq(sides, LAMBDA q : q # winner), LAMBDA losers :
        Let(SelectSeq(prov.units, LAMBDA u : u.owner = winner), LAMBDA units1 :
        Let(winner_removed(units1, winner,
                           FloorDiv(SumSeq(MapSeq(LAMBDA q : strengths[q], losers)), 4)),
            LAMBDA removed :
        Let(MapSeq(LAMBDA u : IF u.owner = winner /\ u.veteran < 2
                              THEN [u EXCEPT !.veteran = @ + 1] ELSE u,
                   Fold(RemoveFirst, units1, removed)), LAMBDA units3 :
            LET losses == [q \in Range(losers)
                                  \cup (IF removed = <<>> THEN {} ELSE {winner}) |->
                             IF q = winner THEN Len(removed) ELSE CountOf(q)]
                winner_corsairs == Len(SelectSeq(units3, LAMBDA u :
                                          u.owner = winner /\ u.type = "corsair"))
                gold_gain == IF winner_corsairs > 0
                             THEN SumSeq(MapSeq(CountOf, losers)) * 2 ELSE 0
            IN  [st EXCEPT !.g.provinces[p].units = units3,
                           !.g.provinces[p].owner = winner,
                           !.g.players[winner].resources[3] = @ + gold_gain,
                           !.events = Append(@, <<"battle", p, winner, strengths>>),
                           !.combats = Append(@, [province |-> p, sides |-> strengths,
                                                  winner |-> winner,
                                                  losses |-> losses])])))))))

process_moves(st, all_orders) ==
    LET Combat(acc, p) ==
            IF Len(OwnersOf(acc.g.provinces[p].units)) <= 1 THEN acc
            ELSE resolve_combat(acc, p)
    IN  Fold(Combat, Fold(moves_player, st, all_orders), ProvinceOrder)

\* ------------------------------------------------------------------------
\* Phase 3: builds (Game.process_builds)
\* ------------------------------------------------------------------------

\* An id built from the player and the unit type alone
next_uid_by_type(g, player_id, utype) == player_id \o "_" \o utype \o "_1"

\* Game._next_uid: the id built from the incremented counter
next_uid(g, player_id, utype) ==
    player_id \o "_" \o utype \o "_" \o ToString(g.uid + 1)

\* The common tail of both unit branches: pay, take an id, append the unit
build_paid(st, pid, p, utype, cost) ==
    LET player == st.g.players[pid]
        u == Unit(next_uid(st.g, pid, utype), utype, pid, p)
    IN  IF ~can_afford(player, cost) THEN st
        ELSE [st EXCEPT !.g.players[pid] = pay(player, cost),
                        !.g.uid = @ + 1,
                        !.g.provinces[p].units = Append(@, u),
                        !.events = Append(@, <<"built_unit", pid, utype, p>>)]

build_unit(st, pid, build) ==
    LET g == st.g
        player == g.players[pid]
        p == build.province
        prov == g.provinces[p]
        unique == CIV_UNIQUE_UNIT[player.civ]
        utype == build.unit_type
        cost == civ_unit_discount(player, UNIT_STATS[utype][1])
        cost_b == IF has_building(prov, "barracks")
                  THEN <<Max(0, cost[1] - 1), cost[2], cost[3]>> ELSE cost
    IN  IF p \notin ProvinceIds THEN st
        ELSE IF prov.owner # pid THEN st
        ELSE IF utype = "unique"
        THEN IF player.civ \notin DOMAIN CIV_UNIQUE_UNIT THEN st
             ELSE IF player.age < UNIT_STATS[unique][4] THEN st
             ELSE build_paid(st, pid, p, unique,
                             civ_unit_discount(player, UNIT_STATS[unique][1]))
        ELSE IF utype \notin UnitTypeValues \cup UniqueUnitValues THEN st
        ELSE IF player.age < UNIT_STATS[utype][4] THEN st
        ELSE build_paid(st, pid, p, utype, cost_b)

build_building(st, pid, build) ==
    LET g == st.g
        player == g.players[pid]
        p == build.province
        prov == g.provinces[p]
        btype == build.building_type
        bstats == BUILDING_STATS[btype]
    IN  IF p \notin ProvinceIds THEN st
        ELSE IF prov.owner # pid THEN st
        ELSE IF btype \notin BuildingTypeValues THEN st
        ELSE IF player.age < bstats[2] THEN st
        ELSE IF has_building(prov, btype) THEN st
        ELSE IF ~can_afford(player, bstats[1]) THEN st
        ELSE [st EXCEPT !.g.players[pid] = pay(player, bstats[1]),
                        !.g.provinces[p].buildings =
                            Append(@, [type |-> btype, done |-> TRUE]),
                        !.events = Append(@, <<"built_building", pid, btype, p>>)]

builds_player(st, orders) ==
    LET pid == orders.player_id
        Bu(acc, b) == build_unit(acc, pid, b)
        Bb(acc, b) == build_building(acc, pid, b)
    IN  IF ~st.g.players[pid].alive THEN st
        ELSE Fold(Bb, Fold(Bu, st, orders.build_units), orders.build_buildings)

process_builds(st, all_orders) == Fold(builds_player, st, all_orders)

\* ------------------------------------------------------------------------
\* Phase 4: trade routes (Game.process_trade_routes)
\* ------------------------------------------------------------------------

trade_route(st, pid, tr_order) ==
    LET g == st.g
        fp == tr_order.from_province
        tp == tr_order.to_province
        exists == \E i \in DOMAIN g.trade_routes :
                     /\ g.trade_routes[i].from_province = fp
                     /\ g.trade_routes[i].to_province = tp
        route == [id |-> "tr_" \o fp \o "_" \o tp,
                  from_province |-> fp, to_province |-> tp, owner |-> pid,
                  partner |-> IF g.provinces[tp].owner # pid
                              THEN g.provinces[tp].owner ELSE None,
                  income |-> 0]
    IN  IF fp \notin ProvinceIds \/ tp \notin ProvinceIds THEN st
        ELSE IF g.provinces[fp].owner # pid THEN st
        ELSE IF ~has_building(g.provinces[fp], "trade_post") THEN st
        ELSE IF ~has_building(g.provinces[tp], "trade_post") THEN st
        ELSE IF exists THEN st
        ELSE [st EXCEPT !.g.trade_routes = Append(@, route),
                        !.events = Append(@, <<"trade_route", pid, fp, tp>>)]

routes_player(st, orders) ==
    LET Tr(acc, t) == trade_route(acc, orders.player_id, t)
    IN  IF ~st.g.players[orders.player_id].alive THEN st
        ELSE Fold(Tr, st, orders.trade_routes)

process_trade_routes(st, all_orders) == Fold(routes_player, st, all_orders)

\* ------------------------------------------------------------------------
\* Phase 5: resource collection (Game.collect_resources and its helpers)
\* ------------------------------------------------------------------------

\* The breadth-first search of _bfs_path from a queue of (node, path) pairs;
\* the for loop over the neighbours of the popped node is the inner fold.
RECURSIVE bfs_search(_, _, _)
bfs_search(queue, visited, b) ==
    IF queue = <<>> THEN <<>>
    ELSE LET node == queue[1][1]
             path == queue[1][2]
             Visit(acc, nb) ==
                 IF acc.found # <<>> THEN acc
                 ELSE IF nb = b THEN [acc EXCEPT !.found = Append(path, b)]
                 ELSE IF nb \notin acc.visited
                      THEN [acc EXCEPT !.visited = @ \cup {nb},
                                       !.queue = Append(@, <<nb, Append(path, nb)>>)]
                 ELSE acc
         IN  Let(Fold(Visit, [found |-> <<>>, visited |-> visited, queue |-> Tail(queue)],
                      Adjacent[node]),
                 LAMBDA r : IF r.found # <<>> THEN r.found
                            ELSE bfs_search(r.queue, r.visited, b))

bfs_path(a, b) == IF a = b THEN <<a>> ELSE bfs_search(<< <<a, <<a>>>> >>, {a}, b)

\* _bfs_dist runs the same search and returns the depth: the number of edges
\* of the path found, -1 when there is none
bfs_dist(a, b) ==
    IF a = b THEN 0
    ELSE Let(bfs_path(a, b), LAMBDA path : IF path = <<>> THEN -1 ELSE Len(path) - 1)

is_route_raided(g, tr, pid) ==
    Let(bfs_path(tr.from_province, tr.to_province), LAMBDA path :
        \E k \in 2..(Len(path) - 1) :
            \E i \in DOMAIN g.provinces[path[k]].units :
                LET u == g.provinces[path[k]].units[i]
                IN  u.owner # pid /\ u.owner # tr.partner)

\* The income of one route of length dist for pid, as the loop body of
\* _calc_trade_income
route_income(g, tr, pid, dist) ==
    Let(IF is_route_raided(g, tr, pid) THEN FloorDiv(dist, 2) ELSE dist, LAMBDA b1 :
    Let(IF g.players[pid].civ = "tidecallers" THEN FloorDiv(b1 * 3, 2) ELSE b1, LAMBDA b2 :
        IF tr.partner # None /\ tr.partner # tr.owner
        THEN IF pid = tr.owner \/ pid = tr.partner THEN FloorDiv(b2 * 2, 2) ELSE b2 * 2
        ELSE b2))

\* _calc_trade_income: returns [g, total]; it stores each route's income
calc_trade_income(g, pid) ==
    LET Step(acc, i) ==
            LET tr == acc.g.trade_routes[i]
            IN  IF tr.owner # pid /\ tr.partner # pid THEN acc
                ELSE Let(bfs_dist(tr.from_province, tr.to_province), LAMBDA dist :
                         IF dist <= 0 THEN acc
                         ELSE Let(route_income(acc.g, tr, pid, dist), LAMBDA base_income :
                                  [g |-> [acc.g EXCEPT !.trade_routes[i].income = base_income],
                                   total |-> acc.total + base_income]))
    IN  Fold(Step, [g |-> g, total |-> 0], [i \in 1..Len(g.trade_routes) |-> i])

\* The income of one owned province, with the civ and unique-unit bonuses
province_income(g, p, pid) ==
    LET own == SelectSeq(g.provinces[p].units, LAMBDA u : u.owner = pid)
        sages == Len(SelectSeq(own, LAMBDA u : u.type = "sage"))
        herbalists == Len(SelectSeq(own, LAMBDA u : u.type = "herbalist"))
    IN  Let(production(g, p, g.players[pid].techs), LAMBDA base :
            <<base[1] + (IF g.players[pid].civ = "verdanti" THEN 1 ELSE 0)
                      + sages + 2 * herbalists,
              base[2] + sages,
              base[3] + sages>>)

collect_player(st, pid) ==
    LET g == st.g
        Add(acc, p) == Let(province_income(g, p, pid), LAMBDA inc :
                           <<acc[1] + inc[1], acc[2] + inc[2], acc[3] + inc[3]>>)
        upkeep == Len(SelectSeq(player_units(g, pid),
                                LAMBDA u : u.type \notin {"militia", "scout"}))
    IN  IF ~g.players[pid].alive THEN st
        ELSE Let(Fold(Add, <<0, 0, 0>>, player_provinces(g, pid)), LAMBDA prod :
             Let(calc_trade_income(g, pid), LAMBDA trade :
             Let(<<prod[1] - upkeep, prod[2], prod[3] + trade.total>>, LAMBDA inc :
                 [st EXCEPT !.g = [trade.g EXCEPT !.players[pid].resources =
                                      <<Max(0, @[1] + inc[1]), Max(0, @[2] + inc[2]),
                                        Max(0, @[3] + inc[3])>>],
                            !.income = DictSet(@, pid, inc)])))

collect_resources(st) == Fold(collect_player, st, PlayerOrder)

\* ------------------------------------------------------------------------
\* Phases 6 and 7: eliminations and victory
\* ------------------------------------------------------------------------

\* Eliminations that look at the units alone
check_eliminations_by_units(st) ==
    LET Step(acc, pid) ==
            IF ~acc.g.players[pid].alive THEN acc
            ELSE IF player_units(acc.g, pid) = <<>>
                 THEN [acc EXCEPT !.g.players[pid].alive = FALSE,
                                  !.eliminations = Append(@, pid),
                                  !.events = Append(@, <<"eliminated", pid>>)]
            ELSE acc
    IN  Fold(Step, st, PlayerOrder)

check_eliminations(st) ==
    LET Step(acc, pid) ==
            IF ~acc.g.players[pid].alive THEN acc
            ELSE IF player_provinces(acc.g, pid) = <<>> /\ player_units(acc.g, pid) = <<>>
                 THEN [acc EXCEPT !.g.players[pid].alive = FALSE,
                                  !.eliminations = Append(@, pid),
                                  !.events = Append(@, <<"eliminated", pid>>)]
            ELSE acc
    IN  Fold(Step, st, PlayerOrder)

Score(g, pid) ==
    LET p == g.players[pid]
    IN  Len(player_provinces(g, pid)) * 3 + Len(player_units(g, pid))
        + FloorDiv(p.resources[3], 5) + Len(p.techs) * 5 + p.age * 10

\* A victory check that looks at the gold before the provinces
check_victory_gold_first(g) ==
    LET alive == SelectSeq(PlayerOrder, LAMBDA p : g.players[p].alive)
        dom == SelectSeq(alive, LAMBDA p : Len(player_provinces(g, p)) >= 15)
        eco == SelectSeq(alive, LAMBDA p :
                   g.players[p].resources[3] >= 100 /\ player_provinces(g, p) # <<>>)
    IN  IF Len(alive) = 1 THEN [g |-> g, winner |-> alive[1], exc |-> FALSE]
        ELSE IF eco # <<>> THEN [g |-> g, winner |-> eco[1], exc |-> FALSE]
        ELSE IF dom # <<>> THEN [g |-> g, winner |-> dom[1], exc |-> FALSE]
        ELSE IF g.turn >= g.max_turns
             THEN Let([g EXCEPT !.players =
                         [p \in PlayerIds |->
                            IF g.players[p].alive
                            THEN [g.players[p] EXCEPT !.score = Score(g, p)]
                            ELSE g.players[p]]],
                      LAMBDA scored :
                          LET best == SelectSeq(alive, LAMBDA p :
                                          \A q \in Range(alive) :
                                              scored.players[q].score
                                                  <= scored.players[p].score)
                          IN  IF alive = <<>>
                              THEN [g |-> scored, winner |-> None, exc |-> TRUE]
                              ELSE [g |-> scored, winner |-> best[1], exc |-> FALSE])
        ELSE [g |-> g, winner |-> None, exc |-> FALSE]

\* check_victory: returns [g, winner, exc]; the score branch stores the
\* scores, and max() of an empty list raises ValueError
check_victory(g) ==
    LET alive == SelectSeq(PlayerOrder, LAMBDA p : g.players[p].alive)
        dom == SelectSeq(alive, LAMBDA p : Len(player_provinces(g, p)) >= 15)
        eco == SelectSeq(alive, LAMBDA p :
                   g.players[p].resources[3] >= 100 /\ player_provinces(g, p) # <<>>)
    IN  IF Len(alive) = 1 THEN [g |-> g, winner |-> alive[1], exc |-> FALSE]
        ELSE IF dom # <<>> THEN [g |-> g, winner |-> dom[1], exc |-> FALSE]
        ELSE IF eco # <<>> THEN [g |-> g, winner |-> eco[1], exc |-> FALSE]
        ELSE IF g.turn >= g.max_turns
             THEN Let([g EXCEPT !.players =
                         [p \in PlayerIds |->
                            IF g.players[p].alive
                            THEN [g.players[p] EXCEPT !.score = Score(g, p)]
                            ELSE g.players[p]]],
                      LAMBDA scored :
                          LET best == SelectSeq(alive, LAMBDA p :
                                          \A q \in Range(alive) :
                                              scored.players[q].score
                                                  <= scored.players[p].score)
                          IN  IF alive = <<>>
                              THEN [g |-> scored, winner |-> None, exc |-> TRUE]
                              ELSE [g |-> scored, winner |-> best[1], exc |-> FALSE])
        ELSE [g |-> g, winner |-> None, exc |-> FALSE]

\* ------------------------------------------------------------------------
\* Turn processing (Game.process_turn)
\* ------------------------------------------------------------------------

\* A resolver that runs the research phase after the builds
process_turn_builds_first(g, all_orders) ==
    Let([g |-> [g EXCEPT !.turn = @ + 1], events |-> <<>>, exc |-> FALSE,
         combats |-> <<>>, income |-> <<>>, eliminations |-> <<>>], LAMBDA st0 :
    Let(process_diplomacy(st0, all_orders), LAMBDA st1 :
        IF st1.exc THEN [g |-> st1.g, exc |-> TRUE, result |-> NoneRec]
        ELSE
    Let(process_moves(st1, all_orders), LAMBDA st2 :
    Let(process_builds(st2, all_orders), LAMBDA st3 :
    Let(process_research(st3, all_orders), LAMBDA st4 :
    Let(process_trade_routes(st4, all_orders), LAMBDA st5 :
    Let(collect_resources(st5), LAMBDA st6 :
    Let(check_eliminations(st6), LAMBDA st7 :
    Let(check_victory(st7.g), LAMBDA v :
        LET events == IF v.winner # None THEN Append(st7.events, <<"wins", v.winner>>)
                      ELSE st7.events
            result == [turn |-> st7.g.turn, combats |-> st7.combats,
                       income |-> st7.income, eliminations |-> st7.eliminations,
                       winner |-> v.winner, events |-> events]
        IN  IF v.exc THEN [g |-> v.g, exc |-> TRUE, result |-> NoneRec]
            ELSE [g |-> [v.g EXCEPT !.winner = IF v.winner # None THEN v.winner ELSE @,
                                    !.history = Append(@, result)],
                  exc |-> FALSE,
                  result |-> result])))))))))

\* all_orders: the values of the orders dict in insertion order.
\* Returns [g, exc, result]: the game as mutated, whether an exception left
\* the method, and the TurnResult (None when it raised).
process_turn(g, all_orders) ==
    Let([g |-> [g EXCEPT !.turn = @ + 1], events |-> <<>>, exc |-> FALSE,
         combats |-> <<>>, income |-> <<>>, eliminations |-> <<>>], LAMBDA st0 :
    Let(process_diplomacy(st0, all_orders), LAMBDA st1 :
        IF st1.exc THEN [g |-> st1.g, exc |-> TRUE, result |-> NoneRec]
        ELSE
    Let(process_research(st1, all_orders), LAMBDA st2 :
    Let(process_moves(st2, all_orders), LAMBDA st3 :
    Let(process_builds(st3, all_orders), LAMBDA st4 :
    Let(process_trade_routes(st4, all_orders), LAMBDA st5 :
    Let(collect_resources(st5), LAMBDA st6 :
    Let(check_eliminations(st6), LAMBDA st7 :
    Let(check_victory(st7.g), LAMBDA v :
        LET events == IF v.winner # None THEN Append(st7.events, <<"wins", v.winner>>)
                      ELSE st7.events
            result == [turn |-> st7.g.turn, combats |-> st7.combats,
                       income |-> st7.income, eliminations |-> st7.eliminations,
                       winner |-> v.winner, events |-> events]
        IN  IF v.exc THEN [g |-> v.g, exc |-> TRUE, result |-> NoneRec]
            ELSE [g |-> [v.g EXCEPT !.winner = IF v.winner # None THEN v.winner ELSE @,
                                    !.history = Append(@, result)],
                  exc |-> FALSE,
                  result |-> result])))))))))

\* ------------------------------------------------------------------------
\* State views (Game.get_player_view, get_full_state, diplomacy queries)
\* ------------------------------------------------------------------------

\* A projection that lists every message of the current turn
diplomacy_unfiltered(g, pid) ==
    LET msgs == SelectSeq(g.messages, LAMBDA m : m.turn = g.turn)
        pending == SelectSeq(g.proposals, LAMBDA p :
                       p.target = pid /\ ~p.accepted /\ ~p.rejected)
    IN  [messages |-> MapSeq(LAMBDA m : [from |-> m.sender, to |-> m.recipient,
                                         content |-> m.content, public |-> m.is_public],
                             msgs),
         pending_proposals |-> MapSeq(LAMBDA p : [id |-> p.id, from |-> p.proposer,
                                                  type |-> p.treaty_type], pending),
         treaties |-> <<>>,
         trust |-> [pid2 \in PlayerIds |-> TrustOf(g, pid2)]]

get_diplomacy_for_player(g, pid) ==
    LET msgs == SelectSeq(g.messages, LAMBDA m :
                    m.turn = g.turn /\ (m.is_public \/ m.recipient = pid \/ m.sender = pid))
        pending == SelectSeq(g.proposals, LAMBDA p :
                       p.target = pid /\ ~p.accepted /\ ~p.rejected)
        active_treaties == SelectSeq(g.treaties, LAMBDA t :
                               InSeq(pid, t.parties) /\ t.broken_by = None)
    IN  [messages |-> MapSeq(LAMBDA m : [from |-> m.sender, to |-> m.recipient,
                                         content |-> m.content, public |-> m.is_public],
                             msgs),
         pending_proposals |-> MapSeq(LAMBDA p : [id |-> p.id, from |-> p.proposer,
                                                  type |-> p.treaty_type], pending),
         treaties |-> MapSeq(LAMBDA t :
                                [id |-> t.id, type |-> t.type,
                                 with |-> SelectSeq(t.parties, LAMBDA q : q # pid)[1],
                                 since |-> t.turn_created], active_treaties),
         trust |-> [pid2 \in PlayerIds |-> TrustOf(g, pid2)]]

\* get_all_diplomacy(up_to_turn=None, public_only)
get_all_diplomacy(g, public_only) ==
    MapSeq(LAMBDA m : [from |-> m.sender, to |-> m.recipient, content |-> m.content,
                       turn |-> m.turn, public |-> m.is_public],
           IF public_only THEN SelectSeq(g.messages, LAMBDA m : m.is_public)
           ELSE g.messages)

get_player_units_list(g, pid) ==
    MapSeq(LAMBDA u : [id |-> u.id, type |-> u.type, province |-> u.province,
                       strength |-> Strength(u), veteran |-> u.veteran],
           player_units(g, pid))

\* A visible set without the watchtower range
visible_no_watchtower(g, pid) ==
    LET owned == Range(player_provinces(g, pid))
    IN  owned \cup UNION {AdjSet(p) : p \in owned}

\* A visible set where the watchtower of any owner extends the range
visible_any_watchtower(g, pid) ==
    LET owned == Range(player_provinces(g, pid))
    IN  owned
        \cup UNION {AdjSet(p) : p \in owned}
        \cup UNION {UNION {AdjSet(a) : a \in AdjSet(p)} :
                      p \in {o \in ProvinceIds : has_building(g.provinces[o], "watchtower")}}

\* The set visible of get_player_view: owned + adjacent + watchtower range
visible_provinces(g, pid) ==
    LET owned == Range(player_provinces(g, pid))
    IN  owned
        \cup UNION {AdjSet(p) : p \in owned}
        \cup UNION {UNION {AdjSet(a) : a \in AdjSet(p)} :
                      p \in {o \in owned : has_building(g.provinces[o], "watchtower")}}

\* An entry that gives the full detail of every visible province
view_entry_full(g, pid, prov_id) ==
    LET prov == g.provinces[prov_id]
    IN  [tr |-> TERRAIN_SHORT[Terrain[prov_id]],
         o |-> IF prov.owner # None THEN prov.owner ELSE "-",
         adj |-> Adjacent[prov_id],
         u |-> unit_counts(prov),
         b |-> MapSeq(LAMBDA b : BUILDING_SHORT[b.type],
                      SelectSeq(prov.buildings, LAMBDA b : b.done)),
         pr |-> production(g, prov_id, g.players[pid].techs)]

\* The entry of one visible province in pv
view_entry(g, pid, prov_id) ==
    LET prov == g.provinces[prov_id]
        base == [tr |-> TERRAIN_SHORT[Terrain[prov_id]],
                 o |-> IF prov.owner # None THEN prov.owner ELSE "-",
                 adj |-> Adjacent[prov_id]]
        bs == MapSeq(LAMBDA b : BUILDING_SHORT[b.type],
                     SelectSeq(prov.buildings, LAMBDA b : b.done))
    IN  IF prov.owner = pid
        THEN [tr |-> base.tr, o |-> base.o, adj |-> base.adj,
              u |-> unit_counts(prov), b |-> bs,
              pr |-> production(g, prov_id, g.players[pid].techs)]
        ELSE IF Len(prov.units) > 0
             THEN [tr |-> base.tr, o |-> base.o, adj |-> base.adj, uc |-> Len(prov.units)]
        ELSE base

get_player_view(g, pid) ==
    LET player == g.players[pid]
        visible == visible_provinces(g, pid)
        routes == SelectSeq(g.trade_routes, LAMBDA tr : tr.owner = pid \/ tr.partner = pid)
    IN  [t |-> g.turn, p |-> pid, c |-> player.civ, a |-> player.age,
         r |-> player.resources, tc |-> player.techs,
         pv |-> [prov_id \in visible |-> view_entry(g, pid, prov_id)],
         fog |-> SelectSeq(ProvinceOrder, LAMBDA q : q \notin visible),
         tr |-> MapSeq(LAMBDA tr : <<tr.from_province, tr.to_province, tr.income>>, routes),
         units |-> get_player_units_list(g, pid),
         diplo |-> get_diplomacy_for_player(g, pid)]

\* The "provinces" object of get_full_state
full_state_province(g, p) ==
    LET prov == g.provinces[p]
        owners == {prov.units[i].owner : i \in DOMAIN prov.units}
        IndexIn(t) == IF InSeq(t, UNIT_ORDER)
                      THEN CHOOSE k \in DOMAIN UNIT_ORDER : UNIT_ORDER[k] = t
                      ELSE 1
        units_by_owner ==
            [o \in owners |->
                [k \in DOMAIN UNIT_ORDER |->
                    Len(SelectSeq(prov.units, LAMBDA u : u.owner = o /\ IndexIn(u.type) = k))]]
    IN  [terrain |-> TERRAIN_SHORT[Terrain[p]],
         owner |-> prov.owner,
         units |-> units_by_owner,
         unit_count |-> Len(prov.units),
         strength |-> SumSeq(MapSeq(Strength, prov.units)),
         buildings |-> MapSeq(LAMBDA b : BUILDING_SHORT[b.type],
                              SelectSeq(prov.buildings, LAMBDA b : b.done)),
         adjacent |-> Adjacent[p],
         defense |-> defense_bonus(g, p),
         income |-> IF prov.owner # None /\ prov.owner \in PlayerIds
                    THEN province_income(g, p, prov.owner) ELSE NoneRec]

\* The "players" object of get_full_state. "resources" is the player's list
\* object itself, not a copy: a holder of the returned dict reads through
\* it whatever the list holds at the time of reading (see ReadState).
full_state_player(g, pid) ==
    LET p == g.players[pid]
        Add(acc, q) == Let(province_income(g, q, pid), LAMBDA inc :
                           <<acc[1] + inc[1], acc[2] + inc[2], acc[3] + inc[3]>>)
        upkeep == Len(SelectSeq(player_units(g, pid),
                                LAMBDA u : u.type \notin {"militia", "scout"}))
    IN  [civ |-> p.civ, age |-> p.age,
         resources |-> [ref |-> pid],
         income |-> IF p.alive
                    THEN Let(Fold(Add, <<0, 0, 0>>, player_provinces(g, pid)), LAMBDA prod :
                             <<prod[1] - upkeep, prod[2],
                               prod[3] + calc_trade_income(g, pid).total>>)
                    ELSE <<0, 0, 0>>,
         techs |-> p.techs, alive |-> p.alive,
         provinces |-> Len(player_provinces(g, pid)),
         units |-> Len(player_units(g, pid)),
         score |-> p.score]

\* get_full_state. Its calls of _calc_trade_income store into each route the
\* income that collect_resources stored already (no unit has moved since), so
\* the game is returned unchanged.
get_full_state(g) ==
    [turn |-> g.turn,
     players |-> [pid \in PlayerIds |-> full_state_player(g, pid)],
     provinces |-> [p \in ProvinceIds |-> full_state_province(g, p)],
     trade_routes |-> MapSeq(LAMBDA tr : [from |-> tr.from_province, to |-> tr.to_province,
                                          owner |-> tr.owner, partner |-> tr.partner,
                                          income |-> tr.income], g.trade_routes),
     treaties |-> MapSeq(LAMBDA t : [id |-> t.id, type |-> t.type, parties |-> t.parties,
                                     since |-> t.turn_created, broken_by |-> t.broken_by],
                         g.treaties),
     trust |-> g.trust_penalties,
     winner |-> g.winner]

\* GET /games/{id}/spectator: the full state with the keys diplo_log and
\* turn_log added (game_id is left out)
get_spectator_state(g, log, mode) ==
    [state |-> get_full_state(g),
     diplo_log |-> get_all_diplomacy(g, mode = "live"),
     turn_log |-> log]

\* What a reader of a dict returned by get_full_state sees when the game is
\* g: the resources read through the shared list objects of g's players.
ReadState(state, g) ==
    [state EXCEPT !.players =
        [pid \in PlayerIds |-> [@[pid] EXCEPT !.resources = g.players[pid].resources]]]

\* ------------------------------------------------------------------------
\* The game server (src/server/app.py): one GameInstance
\* ------------------------------------------------------------------------

\* Orders(player_id=pid): the dataclass defaults
EmptyOrders(pid) ==
    [player_id |-> pid, moves |-> <<>>, build_units |-> <<>>, build_buildings |-> <<>>,
     research |-> None, trade_routes |-> <<>>, diplomacy |-> NoneRec]

\* The Orders that submit_orders builds from a SubmitOrdersRequest
MakeOrders(pid, req) ==
    [player_id |-> pid,
     moves |-> MapSeq(LAMBDA m : [unit_id |-> m.unit_id, target |-> m.target], req.moves),
     build_units |-> MapSeq(LAMBDA b : [unit_type |-> b.type, province |-> b.province],
                            req.build_units),
     build_buildings |-> MapSeq(LAMBDA b : [building_type |-> b.type,
                                            province |-> b.province],
                                req.build_buildings),
     research |-> IF req.research # NoneRec THEN req.research.tech ELSE None,
     trade_routes |-> MapSeq(LAMBDA t : [from_province |-> t.from, to_province |-> t.to],
                             req.trade_routes),
     diplomacy |-> IF req.diplomacy # NoneRec
                   THEN [messages |-> Get(req.diplomacy, "messages", <<>>),
                         proposals |-> Get(req.diplomacy, "proposals", <<>>),
                         accept_treaties |-> Get(req.diplomacy, "accept_treaties", <<>>),
                         reject_treaties |-> Get(req.diplomacy, "reject_treaties", <<>>),
                         break_treaties |-> Get(req.diplomacy, "break_treaties", <<>>)]
                   ELSE NoneRec]

\* The keys of gi.pending_orders, in insertion order
PendingKeys(pending) == MapSeq(LAMBDA o : o.player_id, pending)

\* A store that keeps the earlier orders of the player next to the new ones
StoreAppended(pending, orders) == Append(pending, orders)

\* gi.pending_orders[pid] = orders: a present key keeps its place
StoreOrders(pending, orders) ==
    IF InSeq(orders.player_id, PendingKeys(pending))
    THEN MapSeq(LAMBDA o : IF o.player_id = orders.player_id THEN orders ELSE o, pending)
    ELSE Append(pending, orders)

\* A barrier list that keeps the eliminated players
AlivePlayersAll(g) == PlayerOrder

\* [p for p in gi.game.players if gi.game.players[p].alive]
AlivePlayers(g) == SelectSeq(PlayerOrder, LAMBDA p : g.players[p].alive)

\* A barrier that opens as soon as any player has submitted
BarrierAnyPending(g, pending) == pending # <<>>

\* set(alive) <= set(gi.pending_orders.keys())
BarrierComplete(g, pending) == Range(AlivePlayers(g)) \subseteq Range(PendingKeys(pending))

\* The "waiting" answer of submit_orders
WaitingResponse(g, pending) ==
    [code |-> 200, status |-> "waiting", submitted |-> PendingKeys(pending),
     need |-> SelectSeq(AlivePlayers(g), LAMBDA p : ~InSeq(p, PendingKeys(pending)))]

\* The turn-log entry that _process_turn appends
TurnLogEntry(result, g) ==
    [turn |-> result.turn, events |-> result.events, combats |-> result.combats,
     income |-> result.income, eliminations |-> result.eliminations,
     winner |-> result.winner, state |-> get_full_state(g)]

ProcessedResponse(result) ==
    [code |-> 200, status |-> "turn_processed", turn |-> result.turn,
     combats |-> Len(result.combats), eliminations |-> result.eliminations,
     winner |-> result.winner, events |-> result.events]

\* An HTTPException(400, detail), and the answer to an uncaught exception
Rejected(detail) == [code |-> 400, detail |-> detail]

ServerError == [code |-> 500, detail |-> "Internal Server Error"]

\* ------------------------------------------------------------------------
\* The rating store (server/rankings.py): matches is the content of
\* matches.json, rankings that of rankings.json (agent id -> profile). The
\* match id, the date and the time stamps of the rating history are left
\* out. Ratings are whole numbers; an expected score is held in units of
\* 1/100000.
\* ------------------------------------------------------------------------

K_FACTOR == 32

STARTING_RATING == 1000

\* AgentProfile(agent_id=pid)
AgentProfile ==
    [rating |-> STARTING_RATING, peak_rating |-> STARTING_RATING, wins |-> 0,
     losses |-> 0, draws |-> 0, games_played |-> 0, rating_history |-> <<>>]

\* round(100000 / (1 + 10 ** (d / 400))) for d = -128 .. 128
ExpectedTable ==
    <<
       67630, 67504, 67378, 67251, 67124, 66997, 66869, 66742, 66614, 66486, 66357, 66229,
       66100, 65971, 65841, 65712, 65582, 65452, 65322, 65191, 65060, 64929, 64798, 64667,
       64535, 64403, 64271, 64139, 64006, 63874, 63741, 63608, 63474, 63341, 63207, 63073,
       62939, 62804, 62670, 62535, 62400, 62265, 62130, 61994, 61858, 61723, 61586, 61450,
       61314, 61177, 61040, 60903, 60766, 60629, 60491, 60354, 60216, 60078, 59940, 59801,
       59663, 59524, 59386, 59247, 59108, 58968, 58829, 58690, 58550, 58410, 58270, 58130,
       57990, 57850, 57709, 57569, 57428, 57287, 57146, 57005, 56864, 56723, 56582, 56440,
       56298, 56157, 56015, 55873, 55731, 55589, 55447, 55305, 55162, 55020, 54877, 54735,
       54592, 54449, 54307, 54164, 54021, 53878, 53735, 53592, 53448, 53305, 53162, 53018,
       52875, 52732, 52588, 52445, 52301, 52157, 52014, 51870, 51726, 51582, 51439, 51295,
       51151, 51007, 50863, 50720, 50576, 50432, 50288, 50144, 50000, 49856, 49712, 49568,
       49424, 49280, 49137, 48993, 48849, 48705, 48561, 48418, 48274, 48130, 47986, 47843,
       47699, 47555, 47412, 47268, 47125, 46982, 46838, 46695, 46552, 46408, 46265, 46122,
       45979, 45836, 45693, 45551, 45408, 45265, 45123, 44980, 44838, 44695, 44553, 44411,
       44269, 44127, 43985, 43843, 43702, 43560, 43418, 43277, 43136, 42995, 42854, 42713,
       42572, 42431, 42291, 42150, 42010, 41870, 41730, 41590, 41450, 41310, 41171, 41032,
       40892, 40753, 40614, 40476, 40337, 40199, 40060, 39922, 39784, 39646, 39509, 39371,
       39234, 39097, 38960, 38823, 38686, 38550, 38414, 38277, 38142, 38006, 37870, 37735,
       37600, 37465, 37330, 37196, 37061, 36927, 36793, 36659, 36526, 36392, 36259, 36126,
       35994, 35861, 35729, 35597, 35465, 35333, 35202, 35071, 34940, 34809, 34678, 34548,
       34418, 34288, 34159, 34029, 33900, 33771, 33643, 33514, 33386, 33258, 33131, 33003,
       32876, 32749, 32622, 32496, 32370
    >>

\* _expected_score(ra, rb), for rating differences up to 128
expected_score(ra, rb) == ExpectedTable[rb - ra + 129]

\* n / d cut down to a whole number
RoundDown(n, d) == FloorDiv(n, d)

\* round(n / d) of Python 3: to the nearest whole number, a half to the even one
RoundHalfEven(n, d) ==
    LET q == FloorDiv(n, d)
        r == n - FloorDiv(n, d) * d
    IN  IF 2 * r < d THEN q
        ELSE IF 2 * r > d THEN q + 1
        ELSE IF q % 2 = 0 THEN q ELSE q + 1

\* new_ratings[placements[i]]
new_rating(ratings, placements, i) ==
    LET n == Len(placements)
        ra == ratings[placements[i]]
        total_expected == SumSeq([j \in 1..n |->
                                    IF j = i THEN 0
                                    ELSE expected_score(ra, ratings[placements[j]])])
        total_actual == Cardinality({j \in 1..n : i < j})
    IN  Max(100, RoundHalfEven(ra * (n - 1) * 100000
                                   + K_FACTOR * (total_actual * 100000 - total_expected),
                               (n - 1) * 100000))

\* A peak that follows the rating down
peak_follows(peak, rating) == rating

\* p.peak_rating = max(p.peak_rating, p.rating)
new_peak(peak, rating) == Max(peak, rating)

\* update_multiplayer_elo(placements) on the rankings it has loaded: the
\* dict that it saves
update_multiplayer_elo(loaded, placements) ==
    LET known == [a \in DOMAIN loaded \cup Range(placements) |->
                    IF a \in DOMAIN loaded THEN loaded[a] ELSE AgentProfile]
        ratings == [a \in Range(placements) |-> known[a].rating]
        Index(a) == CHOOSE i \in DOMAIN placements : placements[i] = a
        Rated(a) == Let(new_rating(ratings, placements, Index(a)), LAMBDA r :
                        [known[a] EXCEPT !.rating = r,
                                         !.peak_rating = new_peak(@, r),
                                         !.games_played = @ + 1,
                                         !.rating_history = Append(@, r)])
    IN  [a \in DOMAIN known |->
           IF a \notin Range(placements) THEN known[a]
           ELSE IF a = placements[1] THEN [Rated(a) EXCEPT !.wins = @ + 1]
           ELSE [Rated(a) EXCEPT !.losses = @ + 1]]

\* The MatchRecord of record_match
MatchRecord(players, placements, winner, turn_count) ==
    [players |-> players, placements |-> placements, winner |-> winner,
     turn_count |-> turn_count]

\* record_match(...), run without interruption: the two files afterwards
record_match(ms, rs, players, placements, winner, turn_count) ==
    [matches |-> Append(ms, MatchRecord(players, placements, winner, turn_count)),
     rankings |-> update_multiplayer_elo(rs, placements)]

\* placements = [result.winner] + [alive, not the winner] + dead
Placements(g, winner) ==
    <<winner>> \o SelectSeq(PlayerOrder, LAMBDA p : g.players[p].alive /\ p # winner)
               \o SelectSeq(PlayerOrder, LAMBDA p : ~g.players[p].alive)

\* "if result.winner: record_match(...)" of _process_turn
RecordIfWon(g, result, ms, rs) ==
    IF result.winner # None
    THEN record_match(ms, rs, PlayerOrder, Placements(g, result.winner),
                      result.winner, result.turn)
    ELSE [matches |-> ms, rankings |-> rs]

\* _process_turn(gi): returns the new [game, turn_log, pending, resp] and
\* the rating store [matches, rankings]. An exception raised by process_turn
\* leaves the handler before the log is appended and before pending is
\* cleared.
ProcessTurnCall(g, log, pending, ms, rs) ==
    Let(process_turn(g, pending), LAMBDA r :
        IF r.exc
        THEN [game |-> r.g, turn_log |-> log, pending |-> pending, resp |-> ServerError,
              store |-> [matches |-> ms, rankings |-> rs]]
        ELSE [game |-> r.g,
              turn_log |-> Append(log, TurnLogEntry(r.result, r.g)),
              pending |-> <<>>,
              resp |-> ProcessedResponse(r.result),
              store |-> RecordIfWon(r.g, r.result, ms, rs)])

\* The entry create_game appends for turn 0
InitialLogEntry(g) == [turn |-> 0, events |-> <<"Game created">>, state |-> get_full_state(g)]

\* ------------------------------------------------------------------------
\* The requests the clients send
\* ------------------------------------------------------------------------

EmptyRequest ==
    [moves |-> <<>>, build_units |-> <<>>, build_buildings |-> <<>>,
     research |-> NoneRec, trade_routes |-> <<>>, diplomacy |-> NoneRec]

\* p0: age up, a militia and a watchtower in the capital, a private message
\* to p1, a public message, an alliance proposal to p1
DevelopRequest ==
    [moves |-> <<>>,
     build_units |-> << [type |-> "militia", province |-> "frostgate"] >>,
     build_buildings |-> << [type |-> "watchtower", province |-> "frostgate"] >>,
     research |-> [tech |-> "age_up"],
     trade_routes |-> <<>>,
     diplomacy |-> [messages |-> << [to |-> "p1", content |-> "secret"],
                                    [content |-> "hello"] >>,
                    proposals |-> << [target |-> "p1", type |-> "alliance"] >>]]

\* p1: the scout to Crystalpeak, a militia in the capital, acceptance of the
\* first proposal, a private reply to p0
ReplyRequest ==
    [moves |-> << [unit_id |-> "p1_sco_0", target |-> "crystalpeak"] >>,
     build_units |-> << [type |-> "militia", province |-> "stormwatch"] >>,
     build_buildings |-> <<>>,
     research |-> NoneRec,
     trade_routes |-> <<>>,
     diplomacy |-> [messages |-> << [to |-> "p0", content |-> "reply"] >>,
                    accept_treaties |-> <<"tp_1">>]]

\* p2: a proposal whose type is no treaty type
BadTreatyRequest ==
    [moves |-> <<>>, build_units |-> <<>>, build_buildings |-> <<>>,
     research |-> NoneRec, trade_routes |-> <<>>,
     diplomacy |-> [proposals |-> << [target |-> "p0", type |-> "pact"] >>]]

Requests(pid) ==
    IF pid = "p0" THEN {EmptyRequest, DevelopRequest}
    ELSE IF pid = "p1" THEN {EmptyRequest, ReplyRequest}
    ELSE {EmptyRequest, BadTreatyRequest}

\* The messages of a submit_diplomacy request
DiplomacyRequests == {<<>>, << [to |-> "p1", content |-> "psst"] >>}

\* The longest diplo_log the model follows
MaxDiploLog == 1

\* ------------------------------------------------------------------------
\* The handlers, each as one atomic step
\* ------------------------------------------------------------------------

\* The requests that end a game somewhere on the server, each with its own
\* record_match call
CallIds == {"a", "b"}

\* A call that has not begun: n counts the calls the request has begun,
\* matches and rankings are the call's local variables of these names
NoCall ==
    [pc |-> "idle", n |-> 0, placements |-> <<>>, matches |-> <<>>, rankings |-> <<>>]

\* A new data directory: neither file exists, no call is under way
InitStore ==
    /\ matches = <<>>
    /\ rankings = <<>>
    /\ calls = [c \in CallIds |-> NoCall]

Init ==
    /\ game = GameCreate
    /\ pending_orders = <<>>
    /\ turn_log = <<InitialLogEntry(GameCreate)>>
    /\ diplo_log = <<>>
    /\ resp = [op |-> "create_game", pid |-> None, body |-> [code |-> 200]]
    /\ pc = [p \in PlayerIds |-> "idle"]
    /\ local = [p \in PlayerIds |-> NoneRec]
    /\ InitStore
    /\ twin = NoneRec

\* A server that never takes the game for finished
NeverOver(g) == FALSE

\* "if gi.game.winner:" of the three POST handlers
GameOver(g) == g.winner # None

Respond(op, pid, body) == resp' = [op |-> op, pid |-> pid, body |-> body]

\* The turns of one game are capped: a resolution that raises increments
\* game.turn without ever setting a winner.
MayResolve == game.winner # None \/ game.turn < game.max_turns

\* submit_orders on the game instance [g, log, pending] and the rating
\* store [ms, rs]: the instance, the store and the answer afterwards
SubmitOrdersCall(g, log, pending, ms, rs, pid, req) ==
    IF GameOver(g)
    THEN [game |-> g, turn_log |-> log, pending |-> pending,
          resp |-> Rejected("Game over"), store |-> [matches |-> ms, rankings |-> rs]]
    ELSE IF ~g.players[pid].alive
    THEN [game |-> g, turn_log |-> log, pending |-> pending,
          resp |-> Rejected("Eliminated"), store |-> [matches |-> ms, rankings |-> rs]]
    ELSE Let(StoreOrders(pending, MakeOrders(pid, req)), LAMBDA stored :
             IF BarrierComplete(g, stored)
             THEN ProcessTurnCall(g, log, stored, ms, rs)
             ELSE [game |-> g, turn_log |-> log, pending |-> stored,
                   resp |-> WaitingResponse(g, stored),
                   store |-> [matches |-> ms, rankings |-> rs]])

\* POST /games/{id}/orders
submit_orders(pid, req) ==
    /\ MayResolve
    /\ UNCHANGED <<diplo_log, pc, local, calls, twin>>
    /\ \E done \in {SubmitOrdersCall(game, turn_log, pending_orders,
                                      matches, rankings, pid, req)} :
           /\ game' = done.game
           /\ turn_log' = done.turn_log
           /\ pending_orders' = done.pending
           /\ matches' = done.store.matches
           /\ rankings' = done.store.rankings
           /\ Respond("submit_orders", pid, done.resp)

\* for pid in gi.game.players: the empty orders force_process adds
FillMissing(g, pending) ==
    LET Add(acc, pid) ==
            IF g.players[pid].alive /\ ~InSeq(pid, PendingKeys(acc))
            THEN Append(acc, EmptyOrders(pid)) ELSE acc
    IN  Fold(Add, pending, PlayerOrder)

\* POST /games/{id}/process
force_process ==
    /\ MayResolve
    /\ UNCHANGED <<diplo_log, pc, local, calls, twin>>
    /\ IF GameOver(game)
       THEN /\ Respond("force_process", None, Rejected("Game over"))
            /\ UNCHANGED <<game, pending_orders, turn_log, matches, rankings>>
       ELSE \E filled \in {FillMissing(game, pending_orders)} :
            \E done \in {ProcessTurnCall(game, turn_log, filled, matches, rankings)} :
                /\ game' = done.game
                /\ turn_log' = done.turn_log
                /\ pending_orders' = done.pending
                /\ matches' = done.store.matches
                /\ rankings' = done.store.rankings
                /\ Respond("force_process", None, done.resp)

\* POST /games/{id}/diplomacy (the time stamp of an entry is left out)
submit_diplomacy(pid, messages) ==
    /\ UNCHANGED <<game, pending_orders, turn_log, pc, local,
                   matches, rankings, calls, twin>>
    /\ IF GameOver(game)
       THEN /\ Respond("submit_diplomacy", pid, Rejected("Game over"))
            /\ UNCHANGED diplo_log
       ELSE /\ Len(diplo_log) + Len(messages) <= MaxDiploLog
            /\ diplo_log' = diplo_log \o
                   MapSeq(LAMBDA m : [turn |-> game.turn, from |-> pid, to |-> m.to,
                                      content |-> m.content], messages)
            /\ Respond("submit_diplomacy", pid, [code |-> 200, ok |-> TRUE])

SubmitOrders == \E pid \in PlayerIds : \E req \in Requests(pid) : submit_orders(pid, req)

ForceProcess == force_process

SubmitDiplomacy ==
    \E pid \in PlayerIds : \E messages \in DiplomacyRequests : submit_diplomacy(pid, messages)

Next == SubmitOrders \/ ForceProcess \/ SubmitDiplomacy

Spec == Init /\ [][Next]_vars

\* ------------------------------------------------------------------------
\* submit_orders as the server runs it: a plain "def" endpoint, so each
\* request runs on a thread of the worker pool, no lock is taken anywhere in
\* app.py, and the statements of two requests interleave. Each player sends
\* one request for the first turn; pc[pid] is the position of its thread and
\* local[pid] the thread's "orders", later its "result".
\* ------------------------------------------------------------------------

\* The requests of the concurrent runs: none of them makes the resolver raise
ConcRequests(pid) == Requests(pid) \ {BadTreatyRequest}

\* app.py:133-158: the guards, and the Orders built from the request
Begin(pid, req) ==
    /\ pc[pid] = "idle"
    /\ UNCHANGED <<game, pending_orders, turn_log, diplo_log,
                   matches, rankings, calls, twin>>
    /\ IF GameOver(game)
       THEN /\ Respond("submit_orders", pid, Rejected("Game over"))
            /\ pc' = [pc EXCEPT ![pid] = "done"]
            /\ UNCHANGED local
       ELSE IF ~game.players[pid].alive
       THEN /\ Respond("submit_orders", pid, Rejected("Eliminated"))
            /\ pc' = [pc EXCEPT ![pid] = "done"]
            /\ UNCHANGED local
       ELSE /\ local' = [local EXCEPT ![pid] = MakeOrders(pid, req)]
            /\ pc' = [pc EXCEPT ![pid] = "store"]
            /\ UNCHANGED resp

\* app.py:160
Store(pid) ==
    /\ pc[pid] = "store"
    /\ pending_orders' = StoreOrders(pending_orders, local[pid])
    /\ pc' = [pc EXCEPT ![pid] = "check"]
    /\ UNCHANGED <<game, turn_log, diplo_log, resp, local,
                   matches, rankings, calls, twin>>

\* app.py:162-166
Check(pid) ==
    /\ pc[pid] = "check"
    /\ UNCHANGED <<game, pending_orders, turn_log, diplo_log, local,
                   matches, rankings, calls, twin>>
    /\ IF BarrierComplete(game, pending_orders)
       THEN /\ pc' = [pc EXCEPT ![pid] = "resolve"]
            /\ UNCHANGED resp
       ELSE /\ pc' = [pc EXCEPT ![pid] = "done"]
            /\ Respond("submit_orders", pid, WaitingResponse(game, pending_orders))

\* app.py:181
Resolve(pid) ==
    /\ pc[pid] = "resolve"
    /\ \E r \in {process_turn(game, pending_orders)} :
           /\ game' = r.g
           /\ IF r.exc
              THEN /\ pc' = [pc EXCEPT ![pid] = "done"]
                   /\ Respond("submit_orders", pid, ServerError)
                   /\ UNCHANGED local
              ELSE /\ pc' = [pc EXCEPT ![pid] = "log"]
                   /\ local' = [local EXCEPT ![pid] = r.result]
                   /\ UNCHANGED resp
    /\ UNCHANGED <<pending_orders, turn_log, diplo_log,
                   matches, rankings, calls, twin>>

\* app.py:182-190
Log(pid) ==
    /\ pc[pid] = "log"
    /\ turn_log' = Append(turn_log, TurnLogEntry(local[pid], game))
    /\ pc' = [pc EXCEPT ![pid] = "clear"]
    /\ UNCHANGED <<game, pending_orders, diplo_log, resp, local,
                   matches, rankings, calls, twin>>

\* app.py:191-211
Clear(pid) ==
    /\ pc[pid] = "clear"
    /\ pending_orders' = <<>>
    /\ pc' = [pc EXCEPT ![pid] = "done"]
    /\ \E store \in {RecordIfWon(game, local[pid], matches, rankings)} :
           /\ matches' = store.matches
           /\ rankings' = store.rankings
    /\ Respond("submit_orders", pid, ProcessedResponse(local[pid]))
    /\ UNCHANGED <<game, turn_log, diplo_log, local, calls, twin>>

ThreadBegin == \E pid \in PlayerIds : \E req \in ConcRequests(pid) : Begin(pid, req)

ThreadStore == \E pid \in PlayerIds : Store(pid)

ThreadCheck == \E pid \in PlayerIds : Check(pid)

ThreadResolve == \E pid \in PlayerIds : Resolve(pid)

ThreadLog == \E pid \in PlayerIds : Log(pid)

ThreadClear == \E pid \in PlayerIds : Clear(pid)

NextConc ==
    ThreadBegin \/ ThreadStore \/ ThreadCheck \/ ThreadResolve \/ ThreadLog \/ ThreadClear

SpecConc == Init /\ [][NextConc]_vars

\* ------------------------------------------------------------------------
\* record_match as the server runs it: _process_turn calls it on the worker
\* thread of the request that ended a game, rankings.py takes no lock, and
\* each file is read and written whole. Games end in requests "a" and "b";
\* calls[c] is the position and the local state of the call of request c.
\* ------------------------------------------------------------------------

\* The number of matches that get recorded
MaxMatches == 3

\* The placements of a finished game of p0, p1, p2
AllPlacements == {pl \in [1..Len(PlayerOrder) -> PlayerIds] : Range(pl) = PlayerIds}

Begun == SumSeq(MapSeq(LAMBDA c : calls[c].n, <<"a", "b">>))

GameVars == <<game, pending_orders, turn_log, diplo_log, resp, pc, local, twin>>

\* record_match(players, placements, winner, ...) is entered
CallBegin(c, pl) ==
    /\ calls[c].pc = "idle"
    /\ Begun < MaxMatches
    /\ calls' = [calls EXCEPT ![c] = [@ EXCEPT !.pc = "load_matches",
                                                !.n = @ + 1,
                                                !.placements = pl]]
    /\ UNCHANGED <<matches, rankings, GameVars>>

\* rankings.py:138
LoadMatches(c) ==
    /\ calls[c].pc = "load_matches"
    /\ calls' = [calls EXCEPT ![c] = [@ EXCEPT !.pc = "save_matches",
                                                !.matches = matches]]
    /\ UNCHANGED <<matches, rankings, GameVars>>

\* rankings.py:139-149
SaveMatches(c) ==
    /\ calls[c].pc = "save_matches"
    /\ matches' = Append(calls[c].matches,
                         MatchRecord(PlayerOrder, calls[c].placements,
                                     calls[c].placements[1], MaxTurns))
    /\ calls' = [calls EXCEPT ![c] = [@ EXCEPT !.pc = "load_rankings",
                                                !.matches = <<>>]]
    /\ UNCHANGED <<rankings, GameVars>>

\* rankings.py:84
LoadRankings(c) ==
    /\ calls[c].pc = "load_rankings"
    /\ calls' = [calls EXCEPT ![c] = [@ EXCEPT !.pc = "save_rankings",
                                                !.rankings = rankings]]
    /\ UNCHANGED <<matches, rankings, GameVars>>

\* rankings.py:85-127, and the return of record_match
SaveRankings(c) ==
    /\ calls[c].pc = "save_rankings"
    /\ rankings' = update_multiplayer_elo(calls[c].rankings, calls[c].placements)
    /\ calls' = [calls EXCEPT ![c] = [@ EXCEPT !.pc = "idle",
                                                !.placements = <<>>,
                                                !.rankings = <<>>]]
    /\ UNCHANGED <<matches, GameVars>>

RateBegin == \E c \in CallIds : \E pl \in AllPlacements : CallBegin(c, pl)

RateLoadMatches == \E c \in CallIds : LoadMatches(c)

RateSaveMatches == \E c \in CallIds : SaveMatches(c)

RateLoadRankings == \E c \in CallIds : LoadRankings(c)

RateSaveRankings == \E c \in CallIds : SaveRankings(c)

NextRate ==
    RateBegin \/ RateLoadMatches \/ RateSaveMatches \/ RateLoadRankings
        \/ RateSaveRankings

SpecRate == Init /\ [][NextRate]_vars

\* ------------------------------------------------------------------------
\* Matches recorded one after the other: each record_match call returns
\* before the next begins.
\* ------------------------------------------------------------------------

RecordMatch(pl) ==
    /\ Len(matches) < MaxMatches
    /\ \E store \in {record_match(matches, rankings, PlayerOrder, pl, pl[1], MaxTurns)} :
           /\ matches' = store.matches
           /\ rankings' = store.rankings
    /\ UNCHANGED <<calls, GameVars>>

NextSeason == \E pl \in AllPlacements : RecordMatch(pl)

SpecSeason == Init /\ [][NextSeason]_vars

\* ------------------------------------------------------------------------
\* The rating store of a server whose games have four players: the agents a,
\* b, c, d, every game recorded with one of the orders of the four
\* ------------------------------------------------------------------------

LeagueAgents == <<"a", "b", "c", "d">>

\* The number of four-player matches that get recorded
LeagueMatches == 2

LeaguePlacements ==
    {pl \in [1..Len(LeagueAgents) -> Range(LeagueAgents)] : Range(pl) = Range(LeagueAgents)}

LeagueMatch(pl) ==
    /\ Len(matches) < LeagueMatches
    /\ \E store \in {record_match(matches, rankings, LeagueAgents, pl, pl[1], MaxTurns)} :
           /\ matches' = store.matches
           /\ rankings' = store.rankings
    /\ UNCHANGED <<calls, GameVars>>

NextLeague == \E pl \in LeaguePlacements : LeagueMatch(pl)

SpecLeague == Init /\ [][NextLeague]_vars

\* ------------------------------------------------------------------------
\* Two games on one server, created by two create_game requests with the
\* same num_players, seed, civs and max_turns, and sent the same orders
\* request by request. twin is the second GameInstance with the last answer
\* it gave.
\* ------------------------------------------------------------------------

\* Game.create(num_players=3, seed, civs=None): the civs default to the
\* first three of CIVS
DefaultCivsGame ==
    [GameCreate EXCEPT !.players =
        [pid \in PlayerIds |->
            NewPlayer(CIVS[CHOOSE i \in DOMAIN PlayerOrder : PlayerOrder[i] = pid])]]

\* The game of the second create_game request
TwinCreate == GameCreate

InitTwin ==
    /\ game = GameCreate
    /\ pending_orders = <<>>
    /\ turn_log = <<InitialLogEntry(GameCreate)>>
    /\ diplo_log = <<>>
    /\ resp = [op |-> "create_game", pid |-> None, body |-> [code |-> 200]]
    /\ pc = [p \in PlayerIds |-> "idle"]
    /\ local = [p \in PlayerIds |-> NoneRec]
    /\ InitStore
    /\ twin = [game |-> TwinCreate, pending_orders |-> <<>>,
               turn_log |-> <<InitialLogEntry(TwinCreate)>>, resp |-> [code |-> 200]]

\* POST /games/{id}/orders to the first game, then the same request to the
\* second
TwinSubmit(pid, req) ==
    /\ MayResolve
    /\ UNCHANGED <<diplo_log, pc, local, calls>>
    /\ \E done \in {SubmitOrdersCall(game, turn_log, pending_orders,
                                      matches, rankings, pid, req)} :
       \E other \in {SubmitOrdersCall(twin.game, twin.turn_log, twin.pending_orders,
                                       done.store.matches, done.store.rankings,
                                       pid, req)} :
           /\ game' = done.game
           /\ turn_log' = done.turn_log
           /\ pending_orders' = done.pending
           /\ Respond("submit_orders", pid, done.resp)
           /\ twin' = [game |-> other.game, pending_orders |-> other.pending,
                       turn_log |-> other.turn_log, resp |-> other.resp]
           /\ matches' = other.store.matches
           /\ rankings' = other.store.rankings

NextTwin == \E pid \in PlayerIds : \E req \in Requests(pid) : TwinSubmit(pid, req)

SpecTwin == InitTwin /\ [][NextTwin]_vars

\* ------------------------------------------------------------------------
\* A second game of the same three players, created with max_turns =
\* LongTurns. In the war played in it p0 raises infantry and marches on the
\* two provinces of p1.
\* ------------------------------------------------------------------------

\* max_turns of the create_game request of the second game
LongTurns == 3

LongGame == [GameCreate EXCEPT !.max_turns = LongTurns]

InitLong ==
    /\ game = LongGame
    /\ pending_orders = <<>>
    /\ turn_log = <<InitialLogEntry(LongGame)>>
    /\ diplo_log = <<>>
    /\ resp = [op |-> "create_game", pid |-> None, body |-> [code |-> 200]]
    /\ pc = [p \in PlayerIds |-> "idle"]
    /\ local = [p \in PlayerIds |-> NoneRec]
    /\ InitStore
    /\ twin = NoneRec

\* p0: six infantry in the capital (the iron of a new player pays for five)
RecruitRequest ==
    [moves |-> <<>>,
     build_units |-> [i \in 1..6 |-> [type |-> "infantry", province |-> "frostgate"]],
     build_buildings |-> <<>>,
     research |-> NoneRec, trade_routes |-> <<>>, diplomacy |-> NoneRec]

\* p0: three infantry to Stormwatch by way of Crystalpeak, a fourth on to
\* Windcrest, each step a move order of its own
MarchRequest ==
    [moves |-> << [unit_id |-> "p0_inf_0", target |-> "crystalpeak"],
                  [unit_id |-> "p0_inf_0", target |-> "stormwatch"],
                  [unit_id |-> "p0_infantry_1", target |-> "crystalpeak"],
                  [unit_id |-> "p0_infantry_1", target |-> "stormwatch"],
                  [unit_id |-> "p0_infantry_2", target |-> "crystalpeak"],
                  [unit_id |-> "p0_infantry_2", target |-> "stormwatch"],
                  [unit_id |-> "p0_infantry_3", target |-> "crystalpeak"],
                  [unit_id |-> "p0_infantry_3", target |-> "stormwatch"],
                  [unit_id |-> "p0_infantry_3", target |-> "windcrest"] >>,
     build_units |-> <<>>, build_buildings |-> <<>>,
     research |-> NoneRec, trade_routes |-> <<>>, diplomacy |-> NoneRec]

WarRequests(pid) ==
    IF pid = "p0" THEN {RecruitRequest, MarchRequest} ELSE {EmptyRequest}

WarSubmitOrders ==
    \E pid \in PlayerIds : \E req \in WarRequests(pid) : submit_orders(pid, req)

NextWar == WarSubmitOrders \/ ForceProcess

SpecWar == InitLong /\ [][NextWar]_vars

\* ------------------------------------------------------------------------
\* Research in the second game: each turn p0 orders one of two techs of the
\* first age group, a tech of the second, a name that is no tech, or the next
\* age
\* ------------------------------------------------------------------------

ResearchRequest(tech) == [EmptyRequest EXCEPT !.research = [tech |-> tech]]

\* p0: advance to the next age and build what the second age unlocks:
\* archers at home and in a province p0 does not own, and a watchtower
AdvanceRequest ==
    [EmptyRequest EXCEPT
        !.research = [tech |-> "age_up"],
        !.build_units = << [type |-> "archers", province |-> "frostgate"],
                           [type |-> "archers", province |-> "crystalpeak"] >>,
        !.build_buildings = << [type |-> "watchtower", province |-> "frostgate"] >>]

ResearchRequests(pid) ==
    IF pid = "p0"
    THEN {ResearchRequest(t) : t \in {"agr", "min", "tac", "alchemy", "age_up"}}
             \cup {AdvanceRequest}
    ELSE {EmptyRequest}

ResearchSubmitOrders ==
    \E pid \in PlayerIds : \E req \in ResearchRequests(pid) : submit_orders(pid, req)

NextResearch == ResearchSubmitOrders \/ ForceProcess

SpecResearch == InitLong /\ [][NextResearch]_vars

\* ------------------------------------------------------------------------
\* Treaties in the first game: p0 proposes a pact to p1, whose answer to the
\* first proposal of the game is to accept it or to reject it
\* ------------------------------------------------------------------------

ProposeRequest ==
    [EmptyRequest EXCEPT
        !.diplomacy = [proposals |-> << [target |-> "p1", type |-> "nap"] >>]]

AcceptRequest == [EmptyRequest EXCEPT !.diplomacy = [accept_treaties |-> <<"tp_1">>]]

RejectRequest == [EmptyRequest EXCEPT !.diplomacy = [reject_treaties |-> <<"tp_1">>]]

\* Break orders for the treaty that the acceptance of tp_1 forms (t_2, or
\* t_3 after a second proposal), the first of them twice
BreakRequest ==
    [EmptyRequest EXCEPT !.diplomacy = [break_treaties |-> <<"t_2", "t_2", "t_3">>]]

TreatyRequests(pid) ==
    IF pid = "p0" THEN {ProposeRequest, BreakRequest}
    ELSE IF pid = "p1" THEN {AcceptRequest, RejectRequest, BreakRequest}
    ELSE {EmptyRequest, BreakRequest}

TreatySubmitOrders ==
    \E pid \in PlayerIds : \E req \in TreatyRequests(pid) : submit_orders(pid, req)

NextTreaty == TreatySubmitOrders \/ ForceProcess

SpecTreaty == Init /\ [][NextTreaty]_vars

\* The same requests to the game of three turns
SpecBreak == InitLong /\ [][NextTreaty]_vars

\* ------------------------------------------------------------------------
\* The game of three turns, fought over Crystalpeak: the neutral province
\* between the capitals of p0 and p1. Each of the two sends some of the
\* units of its capital there, or none.
\* ------------------------------------------------------------------------

\* Move orders to Crystalpeak for the units of kinds (in this order) of pid
ClashRequest(pid, kinds) ==
    [EmptyRequest EXCEPT
        !.moves = MapSeq(LAMBDA k : [unit_id |-> pid \o "_" \o k \o "_0",
                                     target |-> "crystalpeak"], kinds)]

ClashRequests(pid) ==
    IF pid = "p0"
    THEN {ClashRequest(pid, kinds) :
              kinds \in {<<>>, <<"sco">>, <<"mil">>, <<"mil", "inf">>}}
    ELSE IF pid = "p1"
    THEN {ClashRequest(pid, kinds) :
              kinds \in {<<>>, <<"inf">>, <<"mil", "inf">>}}
    ELSE {EmptyRequest}

ClashSubmitOrders ==
    \E pid \in PlayerIds : \E req \in ClashRequests(pid) : submit_orders(pid, req)

NextClash == ClashSubmitOrders \/ ForceProcess

SpecClash == InitLong /\ [][NextClash]_vars

\* ------------------------------------------------------------------------
\* The war of the second game with a muster: p0 and p1 may also send all
\* four of their units to Crystalpeak in one turn
\* ------------------------------------------------------------------------

\* Move orders that bring every starting unit of pid to Crystalpeak, the
\* militia of the second province by way of the capital
MusterRequest(pid) ==
    LET capital == PLAYER_STARTS[CHOOSE i \in DOMAIN PlayerOrder : PlayerOrder[i] = pid][1]
    IN  [EmptyRequest EXCEPT
            !.moves = << [unit_id |-> pid \o "_mil_0", target |-> "crystalpeak"],
                         [unit_id |-> pid \o "_inf_0", target |-> "crystalpeak"],
                         [unit_id |-> pid \o "_sco_0", target |-> "crystalpeak"],
                         [unit_id |-> pid \o "_mil_1", target |-> capital],
                         [unit_id |-> pid \o "_mil_1", target |-> "crystalpeak"] >>]

SiegeRequests(pid) ==
    IF pid = "p0" THEN {RecruitRequest, MarchRequest, MusterRequest(pid)}
    ELSE IF pid = "p1" THEN {EmptyRequest, MusterRequest(pid)}
    ELSE {EmptyRequest}

SiegeSubmitOrders ==
    \E pid \in PlayerIds : \E req \in SiegeRequests(pid) : submit_orders(pid, req)

NextSiege == SiegeSubmitOrders \/ ForceProcess

SpecSiege == InitLong /\ [][NextSiege]_vars

\* ------------------------------------------------------------------------
\* A conquest in the second game: p0 recruits infantry, marches south on the
\* two provinces of p2 and from there east on the two provinces of p1
\* ------------------------------------------------------------------------

\* One move order for each province of path, all for the same unit
Route(unit_id, path) == MapSeq(LAMBDA t : [unit_id |-> unit_id, target |-> t], path)

\* Three infantry to Moonhaven by way of Snowhaven, Mistwood and Silverlake;
\* a fourth stops at Silverlake
SouthRequest ==
    [EmptyRequest EXCEPT
        !.moves = Route("p0_inf_0", <<"snowhaven", "mistwood", "silverlake", "moonhaven">>)
               \o Route("p0_infantry_1", <<"snowhaven", "mistwood", "silverlake", "moonhaven">>)
               \o Route("p0_infantry_2", <<"snowhaven", "mistwood", "silverlake", "moonhaven">>)
               \o Route("p0_infantry_3", <<"snowhaven", "mistwood", "silverlake">>)]

\* The same units from Moonhaven to Stormwatch, the fourth from Silverlake
\* through Stormwatch to Windcrest
EastRequest ==
    LET back == <<"mistwood", "snowhaven", "frostgate", "crystalpeak", "stormwatch">>
    IN  [EmptyRequest EXCEPT
            !.moves = Route("p0_inf_0", <<"silverlake">> \o back)
                   \o Route("p0_infantry_1", <<"silverlake">> \o back)
                   \o Route("p0_infantry_2", <<"silverlake">> \o back)
                   \o Route("p0_infantry_3", back \o <<"windcrest">>)]

ConquestRequests(pid) ==
    IF pid = "p0" THEN {RecruitRequest, SouthRequest, EastRequest} ELSE {EmptyRequest}

ConquestSubmitOrders ==
    \E pid \in PlayerIds : \E req \in ConquestRequests(pid) : submit_orders(pid, req)

NextConquest == ConquestSubmitOrders \/ ForceProcess

SpecConquest == InitLong /\ [][NextConquest]_vars

\* ------------------------------------------------------------------------
\* A trade route in the second game: p0 and p1 reach the second age and
\* build trade posts in their capitals, p0 opens the route from Frostgate to
\* Stormwatch (by way of Crystalpeak), and any of the three may send its
\* scout to Crystalpeak
\* ------------------------------------------------------------------------

\* Age up, a trade post in the capital and, with the flag, the scout
\* to Crystalpeak
PostRequest(pid, capital, with_scout) ==
    [EmptyRequest EXCEPT
        !.research = [tech |-> "age_up"],
        !.build_buildings = << [type |-> "trade_post", province |-> capital] >>,
        !.moves = IF with_scout
                  THEN << [unit_id |-> pid \o "_sco_0", target |-> "crystalpeak"] >>
                  ELSE <<>>]

\* The same with the order for the route
RouteRequest(with_scout) ==
    [PostRequest("p0", "frostgate", with_scout) EXCEPT
        !.trade_routes = << [from |-> "frostgate", to |-> "stormwatch"] >>]

\* p2's scout from Moonhaven to Crystalpeak
RaidRequest ==
    [EmptyRequest EXCEPT
        !.moves = Route("p2_sco_0", <<"silverlake", "mistwood", "snowhaven",
                                      "frostgate", "crystalpeak">>)]

TradeRequests(pid) ==
    IF pid = "p0" THEN {RouteRequest(FALSE), RouteRequest(TRUE)}
    ELSE IF pid = "p1"
    THEN {PostRequest("p1", "stormwatch", FALSE), PostRequest("p1", "stormwatch", TRUE)}
    ELSE {EmptyRequest, RaidRequest}

TradeSubmitOrders ==
    \E pid \in PlayerIds : \E req \in TradeRequests(pid) : submit_orders(pid, req)

NextTrade == TradeSubmitOrders \/ ForceProcess

SpecTrade == InitLong /\ [][NextTrade]_vars

\* ------------------------------------------------------------------------
\* An intrusion in the second game: p0 may withdraw the militia of Snowhaven
\* to the capital and recruit a militia in Snowhaven; p1 may send its scout
\* to Snowhaven by way of Crystalpeak and Frostgate
\* ------------------------------------------------------------------------

WithdrawRequest ==
    [EmptyRequest EXCEPT
        !.moves = Route("p0_mil_1", <<"frostgate">>),
        !.build_units = << [type |-> "militia", province |-> "snowhaven"] >>]

IntrudeRequest ==
    [EmptyRequest EXCEPT
        !.moves = Route("p1_sco_0", <<"crystalpeak", "frostgate", "snowhaven">>)]

IntrusionRequests(pid) ==
    IF pid = "p0" THEN {EmptyRequest, WithdrawRequest}
    ELSE IF pid = "p1" THEN {EmptyRequest, IntrudeRequest}
    ELSE {EmptyRequest}

IntrusionSubmitOrders ==
    \E pid \in PlayerIds : \E req \in IntrusionRequests(pid) : submit_orders(pid, req)

NextIntrusion == IntrusionSubmitOrders \/ ForceProcess

SpecIntrusion == InitLong /\ [][NextIntrusion]_vars

\* ------------------------------------------------------------------------
\* A campaign in the second game: the war of p0 against p1, with recruiting
\* in any turn, while p2 proposes pacts to p1 and p1 accepts the first
\* ------------------------------------------------------------------------

CampaignRequests(pid) ==
    IF pid = "p0" THEN {RecruitRequest, MarchRequest}
    ELSE IF pid = "p1" THEN {EmptyRequest, AcceptRequest}
    ELSE {EmptyRequest, ProposeRequest}

CampaignSubmitOrders ==
    \E pid \in PlayerIds : \E req \in CampaignRequests(pid) : submit_orders(pid, req)

NextCampaign == CampaignSubmitOrders \/ ForceProcess

SpecCampaign == InitLong /\ [][NextCampaign]_vars

\* ------------------------------------------------------------------------
\* The fight over Crystalpeak in a game created with p0 as Tidecallers
\* ------------------------------------------------------------------------

\* civs of this create_game request
TideCivs == <<"tidecallers", "verdanti", "ashwalkers">>

TideGame ==
    [GameCreate EXCEPT !.players =
        [pid \in PlayerIds |->
            NewPlayer(TideCivs[CHOOSE i \in DOMAIN PlayerOrder : PlayerOrder[i] = pid])]]

InitTide ==
    /\ game = TideGame
    /\ pending_orders = <<>>
    /\ turn_log = <<InitialLogEntry(TideGame)>>
    /\ diplo_log = <<>>
    /\ resp = [op |-> "create_game", pid |-> None, body |-> [code |-> 200]]
    /\ pc = [p \in PlayerIds |-> "idle"]
    /\ local = [p \in PlayerIds |-> NoneRec]
    /\ InitStore
    /\ twin = NoneRec

SpecTide == InitTide /\ [][NextClash]_vars

\* ------------------------------------------------------------------------
\* The end of a game: positions late in a game (some players eliminated, one
\* perhaps holding fifteen more provinces, gold near the hundred) from which
\* turns are resolved with empty orders
\* ------------------------------------------------------------------------

\* The provinces no player starts with, in the order of Game.provinces
NeutralOrder == SelectSeq(ProvinceOrder, LAMBDA p : GameCreate.provinces[p].owner = None)

\* The position in which the players of alive are alive, the others have
\* lost their provinces and units to the first alive player, holder (if not
\* None) has taken fifteen neutral provinces, gold[q] is the gold of q and
\* limit is max_turns
LateGame(alive, holder, gold, limit) ==
    LET heir == SelectSeq(PlayerOrder, LAMBDA q : q \in alive)[1]
        taken == IF holder = None THEN {} ELSE Range(SubSeq(NeutralOrder, 1, 15))
        Prov(p) ==
            LET prov == GameCreate.provinces[p]
            IN  IF p \in taken THEN [prov EXCEPT !.owner = holder]
                ELSE IF prov.owner # None /\ prov.owner \notin alive
                     THEN [prov EXCEPT !.owner = heir, !.units = <<>>]
                ELSE prov
    IN  [GameCreate EXCEPT
            !.provinces = [p \in ProvinceIds |-> Prov(p)],
            !.players = [q \in PlayerIds |->
                            [GameCreate.players[q] EXCEPT !.alive = q \in alive,
                                                          !.resources[3] = gold[q]]],
            !.max_turns = limit]

LateGames ==
    {LateGame(alive, holder, gold, limit) :
        alive \in SUBSET PlayerIds \ {{}},
        holder \in {None} \cup PlayerIds,
        gold \in [PlayerIds -> {5, 97, 98}],
        limit \in {1, 2}}

InitVictory ==
    /\ game \in {g \in LateGames : \A q \in PlayerIds :
                     player_provinces(g, q) # <<>> => g.players[q].alive}
    /\ pending_orders = <<>>
    /\ turn_log = <<InitialLogEntry(game)>>
    /\ diplo_log = <<>>
    /\ resp = [op |-> "create_game", pid |-> None, body |-> [code |-> 200]]
    /\ pc = [p \in PlayerIds |-> "idle"]
    /\ local = [p \in PlayerIds |-> NoneRec]
    /\ InitStore
    /\ twin = NoneRec

NextVictory == ForceProcess

SpecVictory == InitVictory /\ [][NextVictory]_vars

\* ------------------------------------------------------------------------
\* Properties
\* ------------------------------------------------------------------------

AliveSet(g) == {p \in PlayerIds : g.players[p].alive}

\* A step in which submit_orders accepted the caller's orders
AcceptedSubmit == resp'.op = "submit_orders" /\ resp'.body.code # 400

C2_ResolvedOnce ==
    (\A p \in PlayerIds : pc[p] = "done") => game.turn = 1 /\ Len(turn_log) = 2

\* C3: once game.winner is set, every submit_orders, force_process and
\* submit_diplomacy call is answered 400 and leaves the game (winner, turn,
\* provinces, players), pending and the turn log as they were.
C3_WinnerFrozen ==
    [][game.winner # None =>
         /\ resp'.body.code = 400
         /\ game' = game /\ pending_orders' = pending_orders /\ turn_log' = turn_log
         /\ diplo_log' = diplo_log]_vars

\* C3 happens: a call was rejected after the game was won
C3_Witness ==
    /\ game.winner # None /\ resp.op \in {"submit_orders", "force_process"}
    /\ resp.body.code = 400

\* sorted(all_orders) by player id
ByPlayerId(pending) ==
    LET Less(a, b) == PidLess(a.player_id, b.player_id)
    IN  StableSort(Less, pending)

\* C4: for every submission that completes the set of the alive players,
\* resolving the pending orders in their arrival order gives the state and
\* TurnResult that resolving them in ascending player id gives (the
\* resolutions that raise are left aside: they are C5's).
C4_ArrivalOrderIrrelevant ==
    \A pid \in PlayerIds : \A req \in Requests(pid) :
        LET stored == StoreOrders(pending_orders, MakeOrders(pid, req))
        IN  (/\ ~GameOver(game) /\ game.players[pid].alive
             /\ BarrierComplete(game, stored)
             /\ ~process_turn(game, stored).exc)
            => process_turn(game, stored) = process_turn(game, ByPlayerId(stored))

\* C5: no accepted submission and no forced resolution ends in an exception:
\* each is answered 200, and the log holds one entry per resolved turn.
C5_NeverThrows ==
    /\ resp.body.code # 500
    /\ Len(turn_log) = game.turn + 1

\* C6: no step changes what a turn-log entry already stored shows as its
\* state.
C6_SnapshotImmutable ==
    [][\A i \in DOMAIN turn_log :
         ReadState(turn_log'[i].state, game') = ReadState(turn_log[i].state, game)]_vars

\* The provinces a player owns, and those among them with a completed
\* watchtower
Owned(g, pid) == {q \in ProvinceIds : g.provinces[q].owner = pid}

Towers(g, pid) ==
    {q \in Owned(g, pid) :
        \E i \in DOMAIN g.provinces[q].buildings :
            /\ g.provinces[q].buildings[i].type = "watchtower"
            /\ g.provinces[q].buildings[i].done}

\* Owned, adjacent to an owned province, or adjacent to a neighbour of an
\* owned province with a watchtower
Seen(g, pid) ==
    Owned(g, pid)
    \cup {q \in ProvinceIds : \E o \in Owned(g, pid) : q \in AdjSet(o)}
    \cup {q \in ProvinceIds :
            \E o \in Towers(g, pid) : \E a \in AdjSet(o) : q \in AdjSet(a)}

\* C7: in every player projection the keys of pv are exactly the provinces
\* the player owns, those adjacent to one it owns and those adjacent to a
\* neighbour of an owned province with a completed watchtower; fog lists
\* every other province once, as a bare province id.
C7_VisiblePartition ==
    \A pid \in PlayerIds :
        LET view == get_player_view(game, pid)
        IN  /\ DOMAIN view.pv = Seen(game, pid)
            /\ Range(view.fog) = ProvinceIds \ Seen(game, pid)
            /\ Len(view.fog) = Cardinality(Range(view.fog))
            /\ \A i \in DOMAIN view.fog : view.fog[i] \in ProvinceIds

\* C7 happens: a watchtower shows a player a province that is neither its
\* own nor adjacent to one of its own
C7_Witness ==
    \E pid \in PlayerIds : \E q \in DOMAIN get_player_view(game, pid).pv :
        /\ Towers(game, pid) # {}
        /\ q \notin Owned(game, pid)
        /\ \A o \in Owned(game, pid) : q \notin AdjSet(o)

\* The game with each province of the set given to owner o, who has one
\* militia and a watchtower there
Occupied(g, fogged, o) ==
    [g EXCEPT !.provinces =
        [q \in ProvinceIds |->
            IF q \in fogged
            THEN [owner |-> o,
                  units |-> << Unit(o \o "_mil_9", "militia", o, q) >>,
                  buildings |-> << [type |-> "watchtower", done |-> TRUE] >>]
            ELSE g.provinces[q]]]

\* The game with each province of the set left neutral and empty
Emptied(g, fogged) ==
    [g EXCEPT !.provinces =
        [q \in ProvinceIds |->
            IF q \in fogged
            THEN [owner |-> None, units |-> <<>>, buildings |-> <<>>]
            ELSE g.provinces[q]]]

\* C8: the pv and the fog of a player's projection stay the same when the
\* owner, the units and the buildings of the provinces in its fog are
\* replaced, by those of any other player or by nothing.
C8_FogNonInterference ==
    \A pid \in PlayerIds :
        LET view == get_player_view(game, pid)
            fogged == Range(view.fog)
            others == {Emptied(game, fogged)}
                      \cup {Occupied(game, fogged, o) : o \in PlayerIds \ {pid}}
        IN  \A g2 \in others :
                /\ get_player_view(g2, pid).fog = view.fog
                /\ get_player_view(g2, pid).pv = view.pv

\* C8 happens: a player with a watchtower has in its fog a province that
\* another player owns and garrisons
C8_Witness ==
    \E pid \in PlayerIds : \E i \in DOMAIN get_player_view(game, pid).fog :
        LET q == get_player_view(game, pid).fog[i]
        IN  /\ Towers(game, pid) # {}
            /\ game.provinces[q].owner \in PlayerIds \ {pid}
            /\ game.provinces[q].units # <<>>

\* C9: the pv entry of a province the player does not own has the keys tr, o
\* and adj, and the key uc exactly when units stand there, uc being their
\* number; it has no unit breakdown, building list or production.
C9_PartialEntry ==
    \A pid \in PlayerIds :
        LET pv == get_player_view(game, pid).pv
        IN  \A q \in DOMAIN pv :
                q \notin Owned(game, pid) =>
                    LET n == Len(game.provinces[q].units)
                    IN  /\ DOMAIN pv[q] = IF n > 0 THEN {"tr", "o", "adj", "uc"}
                                          ELSE {"tr", "o", "adj"}
                        /\ n > 0 => pv[q].uc = n
                        /\ pv[q].tr = TERRAIN_SHORT[Terrain[q]]
                        /\ pv[q].adj = Adjacent[q]
                        /\ pv[q].o = IF game.provinces[q].owner = None THEN "-"
                                     ELSE game.provinces[q].owner

\* C9 happens: a player sees the units of another player in a province it
\* does not own
C9_Witness ==
    \E pid \in PlayerIds : \E q \in DOMAIN get_player_view(game, pid).pv :
        /\ q \notin Owned(game, pid)
        /\ game.provinces[q].units # <<>>
        /\ game.provinces[q].units[1].owner # pid

\* A message as the projections and the spectator view show it
Shown(m) == [from |-> m.sender, to |-> m.recipient, content |-> m.content]

ShownIn(entries) ==
    {[from |-> entries[i].from, to |-> entries[i].to, content |-> entries[i].content] :
        i \in DOMAIN entries}

\* C10: a player's projection lists exactly the messages of the current turn
\* that are public, sent by the player or addressed to it; a private message
\* is in the projection of no third player and not in the live spectator
\* view.
C10_MessagePrivacy ==
    /\ \A pid \in PlayerIds :
          get_player_view(game, pid).diplo.messages =
              MapSeq(LAMBDA m : [from |-> m.sender, to |-> m.recipient,
                                 content |-> m.content, public |-> m.recipient = "public"],
                     SelectSeq(game.messages, LAMBDA m :
                         /\ m.turn = game.turn
                         /\ (m.recipient = "public" \/ m.sender = pid \/ m.recipient = pid)))
    /\ \A i \in DOMAIN game.messages :
          LET m == game.messages[i]
          IN  m.recipient # "public" =>
                /\ \A t \in PlayerIds \ {m.sender, m.recipient} :
                      Shown(m) \notin ShownIn(get_player_view(game, t).diplo.messages)
                /\ Shown(m) \notin
                      ShownIn(get_spectator_state(game, turn_log, "live").diplo_log)

\* C10 happens: a private message of the current turn between two players,
\* with a third player looking on
C10_Witness ==
    \E i \in DOMAIN game.messages :
        /\ game.messages[i].recipient \in PlayerIds \ {game.messages[i].sender}
        /\ game.messages[i].turn = game.turn
        /\ PlayerIds \ {game.messages[i].sender, game.messages[i].recipient} # {}

\* C11: every unit is in the units list of exactly one province, once, and
\* its province field is the id of that province.
C11_UnitLocation ==
    \A p \in ProvinceIds : \A i \in DOMAIN game.provinces[p].units :
        /\ game.provinces[p].units[i].province = p
        /\ \A q \in ProvinceIds : \A j \in DOMAIN game.provinces[q].units :
               game.provinces[q].units[j].id = game.provinces[p].units[i].id
                   => q = p /\ j = i

\* C11 happens: an infantry built in Frostgate has marched to Windcrest and
\* won the battle there
C11_Witness ==
    /\ game.provinces["windcrest"].owner = "p0"
    /\ \E i \in DOMAIN game.provinces["windcrest"].units :
           game.provinces["windcrest"].units[i].id = "p0_infantry_3"

\* What the units that pid has in h and had not in g cost to build
BuildCost(g, h, pid) ==
    LET old == {u.id : u \in Range(player_units(g, pid))}
        built == SelectSeq(player_units(h, pid), LAMBDA u : u.id \notin old)
        Add(acc, u) ==
            LET cost == civ_unit_discount(g.players[pid], UNIT_STATS[u.type][1])
            IN  <<acc[1] + cost[1], acc[2] + cost[2], acc[3] + cost[3]>>
    IN  Fold(Add, <<0, 0, 0>>, built)

\* C12: after every resolved turn each of food, iron and gold of every
\* player is >= 0, and the units a player built in the turn cost no more of
\* any resource than the player had when the turn began.
C12_NonNegative ==
    [][/\ \A pid \in PlayerIds : \A i \in 1..3 : game'.players[pid].resources[i] >= 0
       /\ game'.turn = game.turn + 1 =>
              \A pid \in PlayerIds : \A i \in 1..3 :
                  BuildCost(game, game', pid)[i] <= game.players[pid].resources[i]]_vars

\* C12 happens: p0 asked for six infantry and got the five its iron paid
\* for, and a turn later the upkeep of six infantry exceeded p0's food and
\* its production, and the food was set to 0
C12_Witness ==
    /\ game.turn = 2
    /\ Len(SelectSeq(game.provinces["frostgate"].units,
                     LAMBDA u : u.type = "infantry")) = 6
    /\ game.players["p0"].resources[1] = 0
    /\ game.history[2].income["p0"][1] < -2

\* The techs of one age group among a player's techs, by their place in the
\* list
GroupPicks(player, age) ==
    {i \in DOMAIN player.techs : InSeq(player.techs[i], TECH_GROUPS[age])}

C14_ProposalTerminal ==
    [][/\ \A i \in DOMAIN game'.proposals :
             ~(game'.proposals[i].accepted /\ game'.proposals[i].rejected)
       /\ \A i \in DOMAIN game.proposals :
             (game.proposals[i].accepted \/ game.proposals[i].rejected)
                 => game'.proposals[i] = game.proposals[i]
       /\ Len(game'.treaties) - Len(game.treaties) =
             Cardinality({i \in DOMAIN game'.proposals :
                            /\ game'.proposals[i].accepted
                            /\ i \in DOMAIN game.proposals =>
                                   /\ ~game.proposals[i].accepted
                                   /\ ~game.proposals[i].rejected})]_vars

\* C15: every province that holds a unit has an owner.
C15_OccupiedOwned ==
    \A p \in ProvinceIds :
        game.provinces[p].units # <<>> => game.provinces[p].owner # None

\* C16: a unit that is on the map before and after a resolution is, after
\* it, in the province it was in or in one adjacent to that province.
C16_SingleStep ==
    [][game'.turn = game.turn + 1 =>
         \A p, q \in ProvinceIds :
             \A i \in DOMAIN game.provinces[p].units :
                 \A j \in DOMAIN game'.provinces[q].units :
                     game'.provinces[q].units[j].id = game.provinces[p].units[i].id
                         => q = p \/ q \in AdjSet(p)]_vars

\* The entries of pending that are pid's, and those that are not
Mine(pending, pid) == SelectSeq(pending, LAMBDA o : o.player_id = pid)

Others(pending, pid) == SelectSeq(pending, LAMBDA o : o.player_id # pid)

InsertAt(s, x, k) == SubSeq(s, 1, k) \o <<x>> \o SubSeq(s, k + 1, Len(s))

C18_EliminatedExcluded ==
    [][resp'.op = "submit_orders" /\ ~GameOver(game) =>
         IF resp'.pid \in AliveSet(game)
         THEN /\ resp'.body.code = 200
              /\ game'.turn = game.turn + 1
                    <=> AliveSet(game) \subseteq
                            (Range(PendingKeys(pending_orders)) \cup {resp'.pid})
         ELSE /\ resp'.body = Rejected("Eliminated")
              /\ UNCHANGED <<game, pending_orders, turn_log>>]_vars

\* C18 happens: p1 was eliminated in turn 2, and turn 3 was resolved by a
\* submit_orders although p1 had no pending entry
C18_Witness ==
    /\ Len(turn_log) = 4
    /\ "p1" \in Range(turn_log[3].eliminations)
    /\ resp.op = "submit_orders" /\ resp.pid \in {"p0", "p2"}
    /\ resp.body.code = 200 /\ resp.body.status = "turn_processed" /\ resp.body.turn = 3

\* The alive players without a pending entry, in the order of game.players
MissingPlayers(g, pending) ==
    SelectSeq(PlayerOrder, LAMBDA p : g.players[p].alive /\ ~InSeq(p, PendingKeys(pending)))

\* C19: force_process on a game without a winner resolves one turn with the
\* pending orders as submitted and an empty order set for every alive player
\* without an entry, and leaves pending empty.
C19_ForceResolvesOnce ==
    [][resp'.op = "force_process" /\ ~GameOver(game) =>
         /\ game'.turn = game.turn + 1
         /\ game' = process_turn(game,
                                 pending_orders
                                     \o MapSeq(EmptyOrders,
                                               MissingPlayers(game, pending_orders))).g
         /\ pending_orders' = <<>>]_vars

\* C20: every step that resolves a turn increases game.turn by one, leaves
\* pending empty and appends one entry to the turn log, the entry's turn
\* being the new game.turn; the turns of the log are then 0, 1, 2, ... in
\* order.
C20_OneEntryPerTurn ==
    [][game'.turn # game.turn =>
         /\ game'.turn = game.turn + 1
         /\ pending_orders' = <<>>
         /\ Len(turn_log') = Len(turn_log) + 1
         /\ SubSeq(turn_log', 1, Len(turn_log)) = turn_log
         /\ turn_log'[Len(turn_log')].turn = game'.turn
         /\ \A i \in DOMAIN turn_log' : turn_log'[i].turn = i - 1]_vars

\* C21: a submit_orders request after which some alive player still has no
\* pending entry leaves the game (turn, provinces, units, players, diplomacy
\* ledger, winner) and the turn log as they were; and whenever the game
\* changes, the step is a turn resolution started by submit_orders or
\* force_process.
C21_WaitingFrame ==
    [][/\ (/\ resp'.op = "submit_orders"
            /\ ~(AliveSet(game) \subseteq
                    (Range(PendingKeys(pending_orders)) \cup {resp'.pid})))
           => UNCHANGED <<game, turn_log, diplo_log>>
       /\ game' # game
           => /\ resp'.op \in {"submit_orders", "force_process"}
              /\ game'.turn = game.turn + 1]_vars

\* C21 happens: in the second turn p1's orders were stored next to p0's and
\* the request was answered "waiting"
C21_Witness ==
    /\ game.turn = 1 /\ Len(turn_log) = 2
    /\ resp.op = "submit_orders" /\ resp.pid = "p1" /\ resp.body.code = 200
    /\ resp.body.status = "waiting"
    /\ PendingKeys(pending_orders) = <<"p0", "p1">>
    /\ pending_orders[2] = MakeOrders("p1", ReplyRequest)

\* C22: the resolution that brings game.turn to max_turns leaves the game
\* with a winner that is alive; when no player is alone, holds 15 provinces
\* or holds 100 gold with a province, that winner has the highest score
\* 3*provinces + units + gold div 5 + 5*techs + 10*age among the alive
\* players, and the smallest player id among those with that score.
C22_EndsByTurnLimit ==
    [][game'.turn = game.turn + 1 /\ game'.turn >= game'.max_turns =>
         /\ game'.winner \in AliveSet(game')
         /\ (/\ Cardinality(AliveSet(game')) > 1
             /\ \A q \in AliveSet(game') :
                    /\ Len(player_provinces(game', q)) < 15
                    /\ ~(game'.players[q].resources[3] >= 100
                           /\ player_provinces(game', q) # <<>>))
            => \A q \in AliveSet(game') \ {game'.winner} :
                   \/ Score(game', q) < Score(game', game'.winner)
                   \/ /\ Score(game', q) = Score(game', game'.winner)
                      /\ PidLess(game'.winner, q)]_vars

\* The profile of agent a in the rankings rs, a new profile if it has none
ProfileOf(rs, a) == IF a \in DOMAIN rs THEN rs[a] ELSE AgentProfile

\* TRUE while a submit_orders request is between its first and its last
\* statement
InRequest(p) == pc[p] \notin {"idle", "done"}

\* C24: the game is recorded once. The match store (empty when the game is
\* created) never holds more than one record; once the game has a winner
\* and no request is under way it holds one; the step that writes the
\* record appends the game's players and winner with placements that start
\* with the winner, adds 1 to games_played of every player, 1 to the
\* wins of the winner and 1 to the losses of every other player; no other
\* step changes the rankings.
C24_RatedOnce ==
    [][/\ Len(matches') <= 1
       /\ (game'.winner # None /\ \A p \in PlayerIds : ~InRequest(p)')
              => Len(matches') = 1
       /\ IF matches' # matches
          THEN /\ matches' = Append(matches,
                                    MatchRecord(PlayerOrder,
                                                matches'[Len(matches')].placements,
                                                game'.winner,
                                                matches'[Len(matches')].turn_count))
               /\ matches'[Len(matches')].placements[1] = game'.winner
               /\ Range(matches'[Len(matches')].placements) = PlayerIds
               /\ \A p \in PlayerIds :
                      /\ p \in DOMAIN rankings'
                      /\ rankings'[p].games_played
                            = ProfileOf(rankings, p).games_played + 1
                      /\ rankings'[p].wins
                            = ProfileOf(rankings, p).wins
                                + (IF p = game'.winner THEN 1 ELSE 0)
                      /\ rankings'[p].losses
                            = ProfileOf(rankings, p).losses
                                + (IF p = game'.winner THEN 0 ELSE 1)
          ELSE UNCHANGED rankings]_vars

\* C25: whenever no record_match call is under way, the match store holds
\* one record for every call that was made, and every agent (each of them
\* is placed in every match) has games_played equal to the number of calls.
C25_NoLostUpdate ==
    (\A c \in CallIds : calls[c].pc = "idle")
        => /\ Len(matches) = Begun
           /\ \A p \in PlayerIds : ProfileOf(rankings, p).games_played = Begun

C27_BreakOnce ==
    [][/\ \A i \in DOMAIN game.treaties :
             /\ i \in DOMAIN game'.treaties
             /\ game.treaties[i].broken_by # None
                    => game'.treaties[i] = game.treaties[i]
       /\ \A i \in DOMAIN game'.treaties :
             /\ game'.treaties[i].broken_by # None
                    => /\ InSeq(game'.treaties[i].broken_by, game'.treaties[i].parties)
                       /\ game'.treaties[i].turn_broken # NoneRec
             /\ game'.treaties[i].broken_by = None
                    => game'.treaties[i].turn_broken = NoneRec
       /\ \A p \in PlayerIds :
             TrustOf(game', p) =
                 Cardinality({i \in DOMAIN game'.treaties :
                                game'.treaties[i].broken_by = p})]_vars

\* C27 happens: the treaty of p0 and p1 was broken by p1 in turn 2 with two
\* break orders, a third turn with further break orders has been resolved,
\* and p1 carries one trust penalty
C27_Witness ==
    /\ game.turn = 3
    /\ Len(game.treaties) = 1
    /\ game.treaties[1].broken_by = "p1"
    /\ game.treaties[1].turn_broken = <<2>>
    /\ TrustOf(game, "p1") = 1 /\ TrustOf(game, "p0") = 0

\* cost[i] <= res[i] for food, iron and gold
Covers(res, cost) == \A i \in 1..3 : cost[i] <= res[i]

\* The units of type utype that pid has in province p of h and that are no
\* units of g
NewUnits(g, h, pid, p, utype) ==
    {i \in DOMAIN h.provinces[p].units :
        /\ h.provinces[p].units[i].owner = pid
        /\ h.provinces[p].units[i].type = utype
        /\ \A q \in ProvinceIds : \A j \in DOMAIN g.provinces[q].units :
               g.provinces[q].units[j].id # h.provinces[p].units[i].id}

\* C28: when a turn is resolved with pending orders of a player whose
\* age_up succeeds, the first unit order of these orders, if its unit type
\* has the new age as minimum age, is built provided the player owns the
\* province and what is left after paying for the age covers the cost; and
\* the first building order, if its building type has the new age as
\* minimum age, is built provided the player owns the province, the
\* province has no such building, and what is left after paying for the age
\* and for the units built in the turn covers the cost.
C28_ResearchBeforeBuilds ==
    [][\A p \in PlayerIds :
          (/\ game'.turn = game.turn + 1
           /\ Mine(pending_orders, p) # <<>>
           /\ resp'.pid # p
           /\ Mine(pending_orders, p)[1].research = "age_up"
           /\ game'.players[p].age = game.players[p].age + 1)
          => LET o == Mine(pending_orders, p)[1]
                 player == game.players[p]
                 new_age == player.age + 1
                 left == pay(player,
                             civ_tech_discount(player, AGE_COST(new_age))).resources
                 built == BuildCost(game, game', p)
             IN  /\ \A b \in {o.build_units[i] : i \in DOMAIN o.build_units \cap {1}} :
                        (/\ b.unit_type \in UnitTypeValues
                         /\ UNIT_STATS[b.unit_type][4] = new_age
                         /\ game'.provinces[b.province].owner = p
                         /\ ~has_building(game.provinces[b.province], "barracks")
                         /\ Covers(left, civ_unit_discount(player,
                                                           UNIT_STATS[b.unit_type][1])))
                        => NewUnits(game, game', p, b.province, b.unit_type) # {}
                 /\ \A b \in {o.build_buildings[i] :
                                  i \in DOMAIN o.build_buildings \cap {1}} :
                        (/\ b.building_type \in BuildingTypeValues
                         /\ BUILDING_STATS[b.building_type][2] = new_age
                         /\ game'.provinces[b.province].owner = p
                         /\ ~has_building(game.provinces[b.province], b.building_type)
                         /\ Covers(<<left[1] - built[1], left[2] - built[2],
                                      left[3] - built[3]>>,
                                    BUILDING_STATS[b.building_type][1]))
                        => has_building(game'.provinces[b.province],
                                        b.building_type)]_vars

\* C28 happens: in turn 2 p0 advanced to the second age, and the same turn
\* built archers and a watchtower in Frostgate and no archers in Crystalpeak
C28_Witness ==
    /\ game.turn = 2
    /\ game.players["p0"].age = 2
    /\ \E i \in DOMAIN game.provinces["frostgate"].units :
           /\ game.provinces["frostgate"].units[i].type = "archers"
           /\ game.provinces["frostgate"].units[i].owner = "p0"
    /\ has_building(game.provinces["frostgate"], "watchtower")
    /\ game.provinces["crystalpeak"].units = <<>>

\* The combats of the turn a step resolves (none when it resolves no turn)
NewCombats ==
    IF Len(game'.history) = Len(game.history) + 1
    THEN Range(game'.history[Len(game'.history)].combats)
    ELSE {}

\* The sides of combat c whose effective strength is the highest
Strongest(c) ==
    {q \in DOMAIN c.sides : \A o \in DOMAIN c.sides : c.sides[q] >= c.sides[o]}

\* C29: in every combat the winner is a side of the highest effective
\* strength; among the sides tied for the highest it is the owner the province
\* had when the combat began if that owner is one of them, otherwise the one
\* with the smallest player id; and the province belongs to the winner
\* afterwards.
C29_CombatWinner ==
    [][\A c \in NewCombats :
          /\ c.winner \in Strongest(c)
          /\ IF game.provinces[c.province].owner \in Strongest(c)
             THEN c.winner = game.provinces[c.province].owner
             ELSE \A q \in Strongest(c) \ {c.winner} : PidLess(c.winner, q)
          /\ game'.provinces[c.province].owner = c.winner]_vars

\* Crystalpeak was won by p1 in the first turn and held by p1 in the second
\* against an equal strength of p0; in another game, unowned, it fell to p0
\* on a tie
C29_Witness ==
    /\ Len(game.history) >= 2
    /\ \E c \in Range(game.history[1].combats) :
          c.province = "crystalpeak" /\ c.winner = "p1"
    /\ \E c \in Range(game.history[2].combats) :
          /\ c.province = "crystalpeak"
          /\ c.sides["p0"] = c.sides["p1"]
          /\ c.winner = "p1"
          /\ game.provinces["crystalpeak"].owner = "p1"

\* All the units of game g
UnitsOfGame(g) == UNION {Range(g.provinces[p].units) : p \in ProvinceIds}

\* The units of player q that the step removes from the game
Fallen(q) ==
    {v \in UnitsOfGame(game) :
        v.owner = q /\ \A u \in UnitsOfGame(game') : u.id # v.id}

\* The units that stand in the province of combat c after the step and
\* existed before it: the winner's units that survived the combat
Survivors(c) ==
    {u \in Range(game'.provinces[c.province].units) :
        \E v \in UnitsOfGame(game) : v.id = u.id}

\* Unit u as it was before the step
Before(u) == CHOOSE v \in UnitsOfGame(game) : v.id = u.id

\* The number of units combat c records as lost by side q
Lost(c, q) == IF q \in DOMAIN c.losses THEN c.losses[q] ELSE 0

\* The sum of the effective strengths of the losing sides of combat c
LoserStrength(c) ==
    SumSeq([i \in DOMAIN PlayerOrder |->
               IF PlayerOrder[i] \in DOMAIN c.sides \ {c.winner}
               THEN c.sides[PlayerOrder[i]] ELSE 0])

\* Side q fought in no combat of the turn but c
OnlyCombat(c, q) == \A d \in NewCombats \ {c} : q \notin DOMAIN d.sides

\* C30: after a combat no losing side has a unit left in the province and
\* each loses every unit it had there; the winner with n units there loses
\* exactly min(floor(L / 4), n - 1) of them, L the sum of the losers'
\* effective strengths, and keeps at least one; no survivor was weaker than
\* a removed unit; each survivor's veteran level rises by 1 up to 2.
C30_Casualties ==
    [][\A c \in NewCombats :
          /\ \A u \in Range(game'.provinces[c.province].units) : u.owner = c.winner
          /\ \A q \in DOMAIN c.sides \ {c.winner} :
                /\ Lost(c, q) >= 1
                /\ OnlyCombat(c, q) => Cardinality(Fallen(q)) = Lost(c, q)
          /\ Cardinality(Survivors(c)) >= 1
          /\ Lost(c, c.winner) =
                Min(LoserStrength(c) \div 4,
                    Cardinality(Survivors(c)) + Lost(c, c.winner) - 1)
          /\ OnlyCombat(c, c.winner) =>
                /\ Cardinality(Fallen(c.winner)) = Lost(c, c.winner)
                /\ \A r \in Fallen(c.winner) : \A s \in Survivors(c) :
                      Strength(r) <= Strength(Before(s))
          /\ \A s \in Survivors(c) :
                /\ s.veteran = Min(Before(s).veteran + 1, 2)
                /\ s.veteran \in 0..2]_vars

\* Crystalpeak, won by p1 in the first turn, was held in the second against
\* the four points of p0's militia and infantry: p1 lost its militia, the
\* weaker of its two units, and its infantry stands there at veteran level 2
C30_Witness ==
    /\ Len(game.history) >= 2
    /\ \E c \in Range(game.history[1].combats) :
          c.province = "crystalpeak" /\ c.winner = "p1"
    /\ \E c \in Range(game.history[2].combats) :
          /\ c.province = "crystalpeak" /\ c.winner = "p1"
          /\ Lost(c, "p1") = 1 /\ Lost(c, "p0") = 2 /\ c.sides["p0"] = 4
    /\ \E u \in Range(game.provinces["crystalpeak"].units) :
          u.id = "p1_inf_0" /\ u.veteran = 2
    /\ \A u \in UnitsOfGame(game) : u.id # "p1_mil_0"

\* The number of enemy units killed in combat c
Killed(c) ==
    SumSeq([i \in DOMAIN PlayerOrder |->
               IF PlayerOrder[i] = c.winner THEN 0 ELSE Lost(c, PlayerOrder[i])])

\* The gold the step gives player q beyond the income it records for the
\* turn (the orders of this scenario spend nothing)
GoldBeyondIncome(q) ==
    game'.players[q].resources[3] - game.players[q].resources[3]
        - game'.history[Len(game'.history)].income[q][3]

\* C31: a combat won by a Tidecallers player (its only combat of the turn)
\* adds to the winner's gold exactly 1 per enemy unit killed in it.
C31_TidecallerCapture ==
    [][\A c \in NewCombats :
          (game.players[c.winner].civ = "tidecallers" /\ OnlyCombat(c, c.winner))
              => GoldBeyondIncome(c.winner) = Killed(c)]_vars

\* Player q of game g owns no province and has no unit
Destitute(g, q) == player_provinces(g, q) = <<>> /\ player_units(g, q) = <<>>

\* C32: a resolved turn leaves a player alive exactly when the player was
\* alive and still owns a province or has a unit, and its eliminations list
\* names exactly the players it marked, each once; no step ever turns a
\* player that is not alive into one that is.
C32_Eliminations ==
    [][/\ \A q \in PlayerIds : game'.players[q].alive => game.players[q].alive
       /\ Len(game'.history) = Len(game.history) + 1 =>
             LET eliminations == game'.history[Len(game'.history)].eliminations
             IN  /\ \A q \in PlayerIds :
                       game'.players[q].alive
                           <=> (game.players[q].alive /\ ~Destitute(game', q))
                 /\ Range(eliminations) =
                       {q \in PlayerIds : game.players[q].alive /\ ~game'.players[q].alive}
                 /\ Len(eliminations) = Cardinality(Range(eliminations))]_vars

\* The turn just resolved has marked p1, who lost every province and unit
C32_Witness ==
    /\ game.history # <<>>
    /\ InSeq("p1", game.history[Len(game.history)].eliminations)
    /\ ~game.players["p1"].alive
    /\ Destitute(game, "p1")

\* The alive players of g that own fifteen provinces or more
Dominant(g) == {q \in AliveSet(g) : Len(player_provinces(g, q)) >= 15}

\* The alive players of g that have 100 gold or more and own a province
Wealthy(g) ==
    {q \in AliveSet(g) :
        g.players[q].resources[3] >= 100 /\ player_provinces(g, q) # <<>>}

EliminationOrder(g) == Fold(LAMBDA acc, r : acc \o r.eliminations, <<>>, g.history)

\* C34: the placements of a recorded match hold every player of the game
\* exactly once: the winner first, then the other alive players, then the
\* eliminated players in the order in which they were eliminated.
C34_Placements ==
    [][Len(matches') = Len(matches) + 1 =>
         LET placements == matches'[Len(matches')].placements
             n_alive == Cardinality(AliveSet(game'))
         IN  /\ Len(placements) = Cardinality(PlayerIds)
             /\ Range(placements) = PlayerIds
             /\ placements[1] = game'.winner
             /\ Range(SubSeq(placements, 1, n_alive)) = AliveSet(game')
             /\ SubSeq(placements, n_alive + 1, Len(placements))
                    = EliminationOrder(game')]_vars

\* The step records a match with placements a, b, c, d while each of the
\* four agents has rating 1000
FourEqualRated ==
    /\ Len(matches') = Len(matches) + 1
    /\ matches'[Len(matches')].placements = LeagueAgents
    /\ \A x \in Range(LeagueAgents) : ProfileOf(rankings, x).rating = 1000

\* C35 as the code computes it: with a, b, c, d all rated 1000, a game with
\* placements a, b, c, d leaves the ratings a = 1016, b = 1005, c = 995,
\* d = 984.
C35_FourPlayerExample ==
    [][FourEqualRated =>
         /\ rankings'["a"].rating = 1016
         /\ rankings'["b"].rating = 1005
         /\ rankings'["c"].rating = 995
         /\ rankings'["d"].rating = 984]_vars

\* C35 as stated: the same game leaves a = 1016, b = 1005, c = 994, d = 984.
C35_AsStated ==
    [][FourEqualRated =>
         /\ rankings'["a"].rating = 1016
         /\ rankings'["b"].rating = 1005
         /\ rankings'["c"].rating = 994
         /\ rankings'["d"].rating = 984]_vars

\* The first match of the store was placed a, b, c, d
C35_Witness ==
    /\ Len(matches) = 1
    /\ matches[1].placements = LeagueAgents
    /\ DOMAIN rankings = Range(LeagueAgents)
    /\ rankings["a"].games_played = 1

\* The gold that the provinces of q produce in game g
GoldProduction(g, q) ==
    SumSeq(MapSeq(LAMBDA p : province_income(g, p, q)[3], player_provinces(g, q)))

\* The trade gold of q in the turn the step resolves: the gold income the
\* turn records for q beyond the production of its provinces
TradeGold(q) ==
    game'.history[Len(game'.history)].income[q][3] - GoldProduction(game', q)

\* A unit owned by neither side of route tr stands in an intermediate
\* province of its shortest path after the step
ThirdPartyOnPath(tr) ==
    LET path == bfs_path(tr.from_province, tr.to_province)
    IN  \E k \in 2..(Len(path) - 1) :
            \E u \in Range(game'.provinces[path[k]].units) :
                u.owner \notin {tr.owner, tr.partner}

\* C36: in a turn resolved with one trade route, shared between two players
\* of which neither is Tidecallers, owner and partner receive the same trade
\* gold: the length of the shortest path, halved when and only when a unit
\* of a third player stands in an intermediate province of the path.
C36_SharedRoute ==
    [][(/\ Len(game'.history) = Len(game.history) + 1
        /\ Len(game'.trade_routes) = 1
        /\ game'.trade_routes[1].partner \notin {None, game'.trade_routes[1].owner}
        /\ game'.players[game'.trade_routes[1].owner].civ # "tidecallers"
        /\ game'.players[game'.trade_routes[1].partner].civ # "tidecallers")
         => LET tr == game'.trade_routes[1]
                dist == bfs_dist(tr.from_province, tr.to_province)
            IN  /\ TradeGold(tr.owner) = TradeGold(tr.partner)
                /\ TradeGold(tr.owner) =
                      IF ThirdPartyOnPath(tr) THEN dist \div 2 ELSE dist]_vars

\* C37: in every state some player is alive; the game has units, each owned
\* by a player that is alive; every combat of the last resolved turn has left
\* a unit of its winner in the province; and once the turn limit is reached
\* the game has a winner that is alive (the score victory had candidates).
C37_SomeoneAlive ==
    /\ AliveSet(game) # {}
    /\ UnitsOfGame(game) # {}
    /\ \A u \in UnitsOfGame(game) : game.players[u.owner].alive
    /\ game.history # <<>> =>
          /\ \A c \in Range(game.history[Len(game.history)].combats) :
                \E u \in Range(game.provinces[c.province].units) : u.owner = c.winner
          /\ game.turn >= game.max_turns => game.winner \in AliveSet(game)

\* The last turn of the game was resolved with a combat, p1 is eliminated,
\* and the winner was found by score among the two alive players
C37_Witness ==
    /\ game.turn = game.max_turns
    /\ Len(game.history) = game.turn
    /\ game.history[Len(game.history)].combats # <<>>
    /\ ~game.players["p1"].alive
    /\ Cardinality(AliveSet(game)) = 2
    /\ game.winner \in AliveSet(game)

\* The owners of the units that stand in province p of game g
OwnersIn(g, p) == {u.owner : u \in Range(g.provinces[p].units)}

\* C38: between the resolutions of turns no province holds units of two or
\* more owners.
C38_OneOwnerPerProvince ==
    \A p \in ProvinceIds : Cardinality(OwnersIn(game, p)) <= 1

\* The ids of the units of game g
UnitIds(g) == {u.id : u \in UnitsOfGame(g)}

\* The ids that _next_uid forms while the counter goes from lo to hi
IssuedIds(lo, hi) ==
    {q \o "_" \o t \o "_" \o ToString(k) :
        q \in PlayerIds, t \in UnitTypeValues \cup UniqueUnitValues, k \in (lo + 1)..hi}

\* The elements of sequence s have ids that differ from one another
DistinctIds(s) == \A i, j \in DOMAIN s : s[i].id = s[j].id => i = j

\* C39: no two units of the game share an id, and the ids of the units a
\* step creates are formed from the values the counter takes in that step,
\* one unit for each value, so that an id is issued once in the whole game,
\* whether the unit it named still exists or not; no two proposals and no two
\* treaties share an id.
C39_UniqueIds ==
    [][/\ Cardinality(UnitIds(game')) = Cardinality(UnitsOfGame(game'))
       /\ UnitIds(game) \subseteq UnitIds(GameCreate) \cup IssuedIds(0, game.uid)
       /\ UnitIds(GameCreate) \cap IssuedIds(0, game'.uid) = {}
       /\ UnitIds(game') \ UnitIds(game) \subseteq IssuedIds(game.uid, game'.uid)
       /\ Cardinality(UnitIds(game') \ UnitIds(game)) = game'.uid - game.uid
       /\ DistinctIds(game'.proposals)
       /\ DistinctIds(game'.treaties)]_vars

\* p0 has recruited in a turn after the one in which a recruit of the first
\* turn fell; two proposals and a treaty exist
C39_Witness ==
    /\ "p0_infantry_1" \notin UnitIds(game)
    /\ \E u \in UnitsOfGame(game) : u.owner = "p0" /\ u.id \in IssuedIds(3, game.uid)
    /\ Len(game.proposals) >= 2
    /\ game.treaties # <<>>

\* The counts in UNIT_ORDER of the units of pid in province p of game g
OwnCounts(g, pid, p) ==
    [k \in DOMAIN UNIT_ORDER |->
        Cardinality({u \in Range(g.provinces[p].units) :
            u.owner = pid /\ u.type = UNIT_ORDER[k]})]

\* C40: in a player's view, the breakdown "u" of a province the viewer owns
\* counts the viewer's own units only, so that it tells nothing of the types
\* of the units another player has in that province.
C40_OwnBreakdown ==
    \A pid \in PlayerIds :
        LET pv == get_player_view(game, pid).pv
        IN  \A p \in DOMAIN pv :
                game.provinces[p].owner = pid => pv[p].u = OwnCounts(game, pid, p)

====
